---- MODULE Spec2Model ----
(***************************************************************************)
(* A model of the RF2 inference orchestrator (Predictor.predict and        *)
(* Predictor.run_prediction of rfantibody/rf2/network/predict.py), of the  *)
(* recycling prologue of RoseTTAFoldModule.forward, of the striped         *)
(* (chunked) computations of rfantibody/rf2/network/Embeddings.py, and of  *)
(* convert_to_hlt of scripts/util/chothia2HLT.py.                          *)
(*                                                                         *)
(* Tensors produced by the network are opaque: the output of kind k of     *)
(* recycle cycle c of trial t of predict call n is the record Out(k,n,t,c).*)
(* The mean predicted LDDT of a cycle is an integer score drawn when the   *)
(* forward pass runs.                                                      *)
(***************************************************************************)
EXTENDS Integers, Sequences, FiniteSets, TLC

\* ---------------------------------------------------------------- bounds
MaxRecycles == 2
MaxModels == 1
MaxCalls == 2
MaxScore == 1
MaxLasu == 2
MaxO == 2

\* ------------------------------------------------------------- helpers
RECURSIVE SumSeq(_)
SumSeq(s) == IF s = <<>> THEN 0 ELSE Head(s) + SumSeq(Tail(s))

RECURSIVE Repeat(_, _)
Repeat(s, n) == IF n = 0 THEN <<>> ELSE s \o Repeat(s, n - 1)

\* Chain-length lists of an asymmetric unit of at most MaxLasu residues.
RECURSIVE Compositions(_)
Compositions(n) ==
  IF n = 0 THEN {<<>>}
  ELSE UNION {{<<k>> \o c : c \in Compositions(n - k)} : k \in 1..n}

ChainLists == UNION {Compositions(n) : n \in 1..MaxLasu}

\* Python's None, and the tensors of the model.
None == [kind |-> "None", call |-> 0, trial |-> 0, cycle |-> 0]
Zeros(k) == [kind |-> k, call |-> 0, trial |-> 0, cycle |-> -1]
Init_xyz == [kind |-> "xyz_t0", call |-> 0, trial |-> 0, cycle |-> -1]
Init_symmsub == [kind |-> "symmsub0", call |-> 0, trial |-> 0, cycle |-> -1]
Out(k, n, t, c) == [kind |-> k, call |-> n, trial |-> t, cycle |-> c]

Scores == 0..MaxScore

VARIABLES
  pc,            \* position of the control thread
  calls,         \* number of Predictor.predict calls made so far
  exc,           \* the exception that ended the last call, or "none"
  \* arguments of the predict call in progress
  n_recycles, n_models, O, Osub, Ls, asu_mask, low_vram,
  \* locals of predict / run_prediction
  i_trial, i_cycle,
  msa_prev, pair_prev, state_prev, xyz_prev, symmsub, mask_recycle,
  logit_s, logits_pae, pred_lddt,
  best_lddt, best_xyz, best_logit, best_pae,
  \* observations
  fwd,           \* the inputs of every model call of the current run
  outs,          \* the mean pLDDT of every cycle of the current run
  pdb, npz       \* the files written by the current run

runvars == <<i_trial, i_cycle, msa_prev, pair_prev, state_prev, xyz_prev,
             symmsub, mask_recycle, logit_s, logits_pae, pred_lddt,
             best_lddt, best_xyz, best_logit, best_pae>>
argvars == <<n_recycles, n_models, O, Osub, Ls, asu_mask, low_vram>>
obsvars == <<fwd, outs, pdb, npz>>

\* The process that constructs the Predictor.
VARIABLES
  weights_found, \* os.path.exists(model_weights)
  printed,       \* what has been printed to standard output
  exit_status    \* the exit status of the process, or Running
procvars == <<weights_found, printed, exit_status>>
\* the process has not ended
Running == -1
predvars == <<pc, calls, exc, argvars, runvars, obsvars, procvars>>

\* The state of one call of a striped function of Embeddings.py.
VARIABLES
  sfn,           \* the function called
  spc,           \* "start", a loop of the function, or "done"
  sL,            \* the number of residues L
  stride,        \* the stride argument (the striping dictionary's entry)
  training,      \* self.training
  strides_none,  \* TemplatePairStack.forward: strides is None
  prev_zero,     \* Recycling.forward: msa, pair and state are all zeros
  sstate,        \* Recycling.forward: the state tensor
  rmask_none,    \* Recycling.forward: mask_recycle is None
  nc_cycle,      \* PositionalEncoding2D.forward: cyclic mode
  sidx,          \* PositionalEncoding2D.forward: idx[0]
  seed,          \* selects the input tensors
  si, sj,        \* loop counters
  nst,           \* stripes executed by the loop last finished
  sout,          \* the (L, L) output under construction
  smsa,          \* Recycling.forward: msa
  sdist,         \* Recycling.forward: dist_CB
  sw             \* how many times each cell (row) was assigned

stripevars == <<sfn, spc, sL, stride, training, strides_none, rmask_none,
                nc_cycle, sidx, seed, si, sj, nst, sout, smsa, sdist, sw,
                prev_zero, sstate>>

\* One call of a function of predict.py on its own: pae_unbin, the LDDT
\* reduction of run_prediction, and the input stages of Predictor.predict.
VARIABLES
  hfn,           \* the function called
  hpc,           \* "start" or "done"
  hin,           \* its arguments
  hout           \* its result
funvars == <<hfn, hpc, hin, hout>>
vars == <<predvars, stripevars, funvars>>

\* --------------------------------------------------- predict: pass 3
Lasu == SumSeq(Ls)
L == Osub * Lasu

\* mask_t.repeat(1, 1, Osub, 1); mask_prev = mask_t[:, 0]: residue r of the
\* Osub-fold input carries the mask of residue ((r-1) mod Lasu)+1 of the unit.
mask_prev(r) == asu_mask[((r - 1) % Lasu) + 1]

\* The chain (counted over all Osub copies) that holds residue r.
RECURSIVE ChainIndex(_, _, _)
ChainIndex(r, chains, k) ==
  IF chains = <<>> THEN 0
  ELSE IF r <= Head(chains) THEN k
  ELSE ChainIndex(r - Head(chains), Tail(chains), k + 1)

same_chain(i, j) ==
  LET chains == Repeat(Ls, Osub)
  IN ChainIndex(i, chains, 1) = ChainIndex(j, chains, 1)

\* ------------------------------------------- run_prediction: set-up
\* mask_recycle = same_chain * (bb valid i) * (bb valid j)
MaskRecycleInit ==
  [kind |-> "mask",
   val |-> [i \in 1..L |-> [j \in 1..L |->
     IF same_chain(i, j) /\ mask_prev(i) /\ mask_prev(j) THEN 1 ELSE 0]]]

NoLddt == [t |-> None, mean |-> -1]

\* ------------------------------------------- RoseTTAFoldModule.forward
\* The recycling prologue: what the Recycling module receives.
RecycleInputs(mp, pp, sp) ==
  IF mp = None
  THEN [msa |-> Zeros("msa"), pair |-> Zeros("pair"), state |-> Zeros("state")]
  ELSE [msa |-> mp, pair |-> pp, state |-> sp]

\* get_striping_parameters (predict.py 142-181)
StripeKeys ==
  {"msa2msa", "msa2pair", "pair2pair", "str2str", "iter", "ff_m2m", "ff_p2p",
   "ff_s2s", "attn", "msarow_n", "msarow_l", "msacol", "biasedax", "trimult",
   "recycl", "msa_emb", "templ_emb", "templ_pair", "templ_attn"}
get_striping_parameters(lv) ==
  LET stripe == [k \in StripeKeys |->
                   IF k \in {"biasedax", "trimult"} THEN 512 ELSE 1024]
  IN IF lv
     THEN [k \in StripeKeys |->
             IF k \in {"msa2msa", "msarow_n", "msarow_l", "msacol", "ff_m2m",
                        "pair2pair", "ff_p2p"} THEN 256
             ELSE IF k \in {"biasedax", "trimult"} THEN 128
             ELSE IF k = "recycl" THEN 512
             ELSE stripe[k]]
     ELSE stripe

\* The keyword arguments of the call self.model(...) at lines 651-675.
ModelKwargs ==
  {"t1d", "t2d", "xyz_t", "alpha_t", "mask_t", "same_chain", "msa_prev",
   "pair_prev", "state_prev", "p2p_crop", "topk_crop", "mask_recycle",
   "symmids", "symmsub", "symmRs", "symmmeta", "striping", "nc_cycle"}
\* What parameter name of RoseTTAFoldModule.forward holds: the value passed
\* under that keyword, or the default of the signature (lines 98-124).
ForwardParam(name, passed, default) ==
  IF name \in ModelKwargs THEN passed ELSE default

\* Names bound in run_prediction or at module level of predict.py.
NamesInScope ==
  {"msa", "ins", "seq", "msa_seed", "msa_extra", "xyz_prev_prev", "logit_s",
   "logits_pae", "p_bind", "xyz_prev", "alpha", "symmsub", "pred_lddt",
   "msa_prev", "pair_prev", "state_prev", "mask_recycle", "i_cycle",
   "best_lddt", "best_xyz", "best_logit", "best_pae",
   "sys", "os", "time", "torch", "nn", "np", "util"}

\* ------------------------------------------------------------- actions
InitPred ==
  /\ pc = "new" /\ calls = 0 /\ exc = "none"
  /\ weights_found \in BOOLEAN /\ printed = <<>> /\ exit_status = Running
  /\ n_recycles = 0 /\ n_models = 0 /\ O = 1 /\ Osub = 1
  /\ Ls = <<1>> /\ asu_mask = <<TRUE>> /\ low_vram = FALSE
  /\ i_trial = 0 /\ i_cycle = 0
  /\ msa_prev = None /\ pair_prev = None /\ state_prev = None
  /\ xyz_prev = None /\ symmsub = None /\ mask_recycle = None
  /\ logit_s = None /\ logits_pae = None /\ pred_lddt = NoLddt
  /\ best_lddt = NoLddt /\ best_xyz = None /\ best_logit = None
  /\ best_pae = None
  /\ fwd = <<>> /\ outs = <<>> /\ pdb = None /\ npz = None

\* No striped function is being called.
StripeIdle ==
  /\ sfn = "none" /\ spc = "done" /\ sL = 1 /\ stride = -1
  /\ training = FALSE /\ strides_none = FALSE /\ rmask_none = FALSE
  /\ nc_cycle = FALSE /\ sidx = <<0>> /\ seed = 0
  /\ si = 0 /\ sj = 0 /\ nst = <<>>
  /\ sout = <<>> /\ smsa = <<>> /\ sdist = <<>> /\ sw = <<>>
  /\ prev_zero = FALSE /\ sstate = <<>>

\* No function of predict.py is being called on its own.
FunIdle == hfn = "none" /\ hpc = "done" /\ hin = <<>> /\ hout = <<>>

Init == InitPred /\ StripeIdle /\ FunIdle

\* Predictor.load_model (lines 292-299): could_load
load_model ==
  IF ~weights_found
  THEN [printed |-> <<"ERROR: model weights not found">>, could_load |-> FALSE]
  ELSE [printed |-> <<>>, could_load |-> TRUE]

\* Predictor.__init__ without lines 282-284: the result of load_model is
\* ignored.
ConstructUnchecked ==
  /\ UNCHANGED <<stripevars, funvars>>
  /\ pc = "new"
  /\ printed' = printed \o load_model.printed
  /\ pc' = "idle" /\ exit_status' = exit_status
  /\ UNCHANGED <<weights_found, calls, exc, argvars, runvars, obsvars>>

\* Predictor.__init__ (lines 265-290).  sys.exit() without an argument
\* raises SystemExit(None), which nothing catches: the interpreter ends the
\* process with status 0.
Construct ==
  /\ UNCHANGED <<stripevars, funvars>>
  /\ pc = "new"
  /\ IF ~load_model.could_load
     THEN /\ printed' = printed \o load_model.printed
                           \o <<"ERROR: failed to load model">>
          /\ pc' = "exited" /\ exit_status' = 0
     ELSE /\ printed' = printed \o load_model.printed
          /\ pc' = "idle" /\ exit_status' = exit_status
  /\ UNCHANGED <<weights_found, calls, exc, argvars, runvars, obsvars>>

\* A caller invokes Predictor.predict (lines 301-505).
Predict ==
  /\ UNCHANGED <<stripevars, funvars, procvars>>
  /\ pc = "idle"
  /\ calls < MaxCalls
  /\ \E nr \in 0..MaxRecycles, nm \in 0..MaxModels, o \in 1..MaxO,
        ls \in ChainLists :
       \E os \in 1..o, am \in [1..SumSeq(ls) -> BOOLEAN], lv \in BOOLEAN :
         /\ n_recycles' = nr /\ n_models' = nm /\ O' = o /\ Osub' = os
         /\ Ls' = ls /\ asu_mask' = am /\ low_vram' = lv
  /\ calls' = calls + 1
  /\ exc' = "none"
  /\ i_trial' = 0
  /\ pc' = "trial"
  /\ fwd' = <<>> /\ outs' = <<>> /\ pdb' = None /\ npz' = None
  /\ UNCHANGED <<i_cycle, msa_prev, pair_prev, state_prev, xyz_prev, symmsub,
                 mask_recycle, logit_s, logits_pae, pred_lddt, best_lddt,
                 best_xyz, best_logit, best_pae>>

\* predict has returned or raised: its frame and that of run_prediction are
\* gone and control is back in the caller.  What the locals last held is
\* kept, to show what a later call would see if it did not reset them.
CallerResumes ==
  /\ UNCHANGED <<stripevars, funvars, procvars>>
  /\ pc \in {"returned", "raised"}
  /\ pc' = "idle"
  /\ n_recycles' = 0 /\ n_models' = 0 /\ O' = 1 /\ Osub' = 1
  /\ Ls' = <<1>> /\ asu_mask' = <<TRUE>> /\ low_vram' = FALSE
  /\ fwd' = <<>> /\ outs' = <<>>
  /\ UNCHANGED <<calls, exc, runvars, pdb, npz>>

\* predict's loop over trials is exhausted: predict returns.
PredictReturn ==
  /\ UNCHANGED <<stripevars, funvars, procvars>>
  /\ pc = "trial" /\ i_trial >= n_models
  /\ pc' = "returned"
  /\ UNCHANGED <<calls, exc, argvars, runvars, obsvars>>

\* RunInit without lines 605-607: the recycle cache is not nulled.
RunInitKeepCache ==
  /\ UNCHANGED <<stripevars, funvars, procvars>>
  /\ pc = "trial" /\ i_trial < n_models
  /\ xyz_prev' = Init_xyz
  /\ symmsub' = Init_symmsub
  /\ mask_recycle' = MaskRecycleInit
  /\ best_lddt' = NoLddt
  /\ best_xyz' = None /\ best_logit' = None /\ best_pae' = None
  /\ i_cycle' = 0
  /\ fwd' = <<>> /\ outs' = <<>> /\ pdb' = None /\ npz' = None
  /\ pc' = "cycle"
  /\ UNCHANGED <<calls, exc, argvars, i_trial, logit_s, logits_pae, pred_lddt,
                 msa_prev, pair_prev, state_prev>>

\* predict calls run_prediction for trial i_trial; run_prediction's set-up.
RunInit ==
  /\ UNCHANGED <<stripevars, funvars, procvars>>
  /\ pc = "trial" /\ i_trial < n_models
  /\ xyz_prev' = Init_xyz
  /\ symmsub' = Init_symmsub
  /\ msa_prev' = None /\ pair_prev' = None /\ state_prev' = None
  /\ mask_recycle' = MaskRecycleInit
  /\ best_lddt' = NoLddt
  /\ best_xyz' = None /\ best_logit' = None /\ best_pae' = None
  /\ i_cycle' = 0
  /\ fwd' = <<>> /\ outs' = <<>> /\ pdb' = None /\ npz' = None
  /\ pc' = "cycle"
  /\ UNCHANGED <<calls, exc, argvars, i_trial, logit_s, logits_pae, pred_lddt>>

\* One pass of the loop body up to the return of self.model(...).
Forward ==
  /\ UNCHANGED <<stripevars, funvars, procvars>>
  /\ pc = "cycle" /\ i_cycle <= n_recycles
  /\ \E s \in Scores :
       /\ pred_lddt' = [t |-> Out("lddt", calls, i_trial, i_cycle), mean |-> s]
       /\ outs' = Append(outs, s)
  /\ fwd' = Append(fwd, [cycle |-> i_cycle,
                         recycle |-> RecycleInputs(msa_prev, pair_prev, state_prev),
                         xyz_prev |-> xyz_prev,
                         symmsub |-> symmsub,
                         mask_recycle |-> mask_recycle,
                         striping |->
                           ForwardParam("striping",
                                        get_striping_parameters(low_vram), None),
                         low_vram |->
                           ForwardParam("low_vram", low_vram, FALSE)])
  /\ logit_s' = Out("logit", calls, i_trial, i_cycle)
  /\ logits_pae' = Out("pae", calls, i_trial, i_cycle)
  /\ xyz_prev' = Out("xyz", calls, i_trial, i_cycle)
  /\ symmsub' = Out("symmsub", calls, i_trial, i_cycle)
  /\ msa_prev' = Out("msa", calls, i_trial, i_cycle)
  /\ pair_prev' = Out("pair", calls, i_trial, i_cycle)
  /\ state_prev' = Out("state", calls, i_trial, i_cycle)
  /\ pc' = "post"
  /\ UNCHANGED <<calls, exc, argvars, i_trial, i_cycle, mask_recycle,
                 best_lddt, best_xyz, best_logit, best_pae, pdb, npz>>

\* PostForward without line 682: the validity mask is kept.
PostForwardKeepMask ==
  /\ UNCHANGED <<stripevars, funvars, procvars>>
  /\ pc = "post"
  /\ pc' = "log"
  /\ UNCHANGED <<calls, exc, argvars, runvars, obsvars>>

\* mask_recycle = None; the pLDDT and PAE expectations.
PostForward ==
  /\ UNCHANGED <<stripevars, funvars, procvars>>
  /\ pc = "post"
  /\ mask_recycle' = None
  /\ pc' = "log"
  /\ UNCHANGED <<calls, exc, argvars, i_trial, i_cycle, msa_prev, pair_prev,
                 state_prev, xyz_prev, symmsub, logit_s, logits_pae, pred_lddt,
                 best_lddt, best_xyz, best_logit, best_pae, obsvars>>

\* Log with the assignment of line 693 in force (rmsd, _, _, _ =
\* calc_rmsd(...)): the print succeeds.
LogRmsdBound ==
  /\ UNCHANGED <<stripevars, funvars, procvars>>
  /\ pc = "log"
  /\ pc' = "compare" /\ exc' = exc
  /\ UNCHANGED <<calls, argvars, runvars, obsvars>>

\* The print of the cycle's pLDDT, PAE and rmsd[0].
Log ==
  /\ UNCHANGED <<stripevars, funvars, procvars>>
  /\ pc = "log"
  /\ IF "rmsd" \in NamesInScope
     THEN pc' = "compare" /\ exc' = exc
     ELSE pc' = "raised" /\ exc' = "NameError"
  /\ UNCHANGED <<calls, argvars, runvars, obsvars>>

\* ---------------------------------------------------------------------
\* The rest of run_prediction.  Log always raises (rmsd is bound nowhere),
\* so control never reaches pc = "compare": the steps below are the code
\* after line 697 and are not disjuncts of Next.

\* The coordinates of residue r of coordinate tensor x, and the rotation
\* symmRs[i] applied to a point (symmRs is a cyclic family of order O).
Point(x, r) == [t |-> x, res |-> r, rot |-> 0]
ApplySymmR(i, p) == [p EXCEPT !.rot = (p.rot + i) % O]

\* Lines 719-733: the full complex of O blocks of Lasu residues.
best_xyzfull ==
  [r \in 1..(O * Lasu) |->
     IF r <= Lasu THEN Point(best_xyz, r)
     ELSE ApplySymmR((r - 1) \div Lasu, Point(best_xyz, ((r - 1) % Lasu) + 1))]
seq_full == [r \in 1..(O * Lasu) |-> ((r - 1) % Lasu) + 1]
best_lddtfull ==
  [r \in 1..(O * Lasu) |-> [t |-> best_lddt.t, res |-> ((r - 1) % Lasu) + 1]]

\* Lines 700-709: best-of tracking, then the next pass of the loop.
BestTracking ==
  /\ UNCHANGED <<stripevars, funvars, procvars>>
  /\ pc = "compare"
  /\ IF pred_lddt.mean < best_lddt.mean
     THEN UNCHANGED <<best_xyz, best_logit, best_lddt, best_pae>>
     ELSE /\ best_xyz' = xyz_prev
          /\ best_logit' = logit_s
          /\ best_lddt' = pred_lddt
          /\ best_pae' = logits_pae
  /\ pred_lddt' = NoLddt /\ logits_pae' = None /\ logit_s' = None
  /\ i_cycle' = i_cycle + 1
  /\ pc' = "cycle"
  /\ UNCHANGED <<calls, exc, argvars, i_trial, msa_prev, pair_prev, state_prev,
                 xyz_prev, symmsub, mask_recycle, obsvars>>

\* Lines 711-775: the loop is over; symmetry expansion and the two files.
SelectBestAndEmit ==
  /\ UNCHANGED <<stripevars, funvars, procvars>>
  /\ pc = "cycle" /\ i_cycle > n_recycles
  /\ IF best_logit = None
     THEN pc' = "raised" /\ exc' = "TypeError" /\ UNCHANGED <<pdb, npz>>
     ELSE /\ pdb' = [xyz |-> best_xyzfull, seq |-> seq_full,
                     bfacts |-> best_lddtfull]
          /\ npz' = [dist |-> best_logit, lddt |-> best_lddt.t,
                     pae |-> best_pae]
          /\ pc' = "run_done" /\ exc' = exc
  /\ pair_prev' = None /\ msa_prev' = None
  /\ UNCHANGED <<calls, argvars, i_trial, i_cycle, state_prev, xyz_prev,
                 symmsub, mask_recycle, logit_s, logits_pae, pred_lddt,
                 best_lddt, best_xyz, best_logit, best_pae, fwd, outs>>

\* Lines 537-540: run_prediction returned; predict's next trial.
TrialNext ==
  /\ UNCHANGED <<stripevars, funvars, procvars>>
  /\ pc = "run_done"
  /\ i_trial' = i_trial + 1
  /\ pc' = "trial"
  /\ UNCHANGED <<calls, exc, argvars, i_cycle, msa_prev, pair_prev, state_prev,
                 xyz_prev, symmsub, mask_recycle, logit_s, logits_pae,
                 pred_lddt, best_lddt, best_xyz, best_logit, best_pae, obsvars>>

Next ==
  \/ Construct
  \/ Predict \/ PredictReturn \/ RunInit \/ Forward \/ PostForward \/ Log
  \/ CallerResumes

Spec == Init /\ [][Next]_vars

\* =====================================================================
\* Embeddings.py: the striped computations.  Residues are 0..L-1.  Learned
\* layers (nn.Linear, nn.LayerNorm, nn.Embedding) and rbf are fixed
\* element-wise functions on small integers; the input tensors are fixed
\* patterns selected by seed.
MaxL == 3
MaxSeed == 1
minpos == -32
maxpos == 32

Idx == 0..(sL - 1)
Cells == Idx \X Idx
Min(a, b) == IF a < b THEN a ELSE b
Abs(a) == IF a < 0 THEN -a ELSE a

\* STRIDE = L; if stride > 0: STRIDE = stride (self.training is not looked at)
StrideOfTraining == IF stride > 0 THEN stride ELSE sL
\* STRIDE = L; if not self.training and stride > 0: STRIDE = stride
StrideOf == IF ~training /\ stride > 0 THEN stride ELSE sL
\* STRIDE = L; if strides is not None and not self.training:
\*     STRIDE = strides["templ_pair"]
StrideOfPair == IF ~strides_none /\ ~training THEN stride ELSE sL

\* range(L // STRIDE): the last, partial stripe is not visited.
NStripesFloor(l, s) == l \div s
\* range((L - 1) // STRIDE + 1)
NStripes(l, s) == (l - 1) \div s + 1

\* arange(i * STRIDE, min((i + 1) * STRIDE, L - 1)): residue L-1 is cut off.
RowsShort(i, s, l) == (i * s)..(Min((i + 1) * s, l - 1) - 1)
\* torch.arange(i * STRIDE, min((i + 1) * STRIDE, L))
Rows(i, s, l) == (i * s)..(Min((i + 1) * s, l) - 1)

Bump(cnt, set) == [x \in DOMAIN cnt |-> IF x \in set THEN cnt[x] + 1 ELSE cnt[x]]
Const(dom, v) == [x \in dom |-> v]

\* ---- PositionalEncoding2D.forward
\* seqsep[0] = idx[0, None, :] - idx[0, :, None], wrapped when nc_cycle
\* (seqsep + (L - 1) // 2) % L - (L - 1) // 2: the half-way difference of
\* an even L comes out positive.
seqsepUpper(i, j) ==
  LET d == sidx[j + 1] - sidx[i + 1]
  IN IF nc_cycle THEN ((d + (sL - 1) \div 2) % sL) - (sL - 1) \div 2 ELSE d
\* the nc_cycle branch is skipped
seqsepNoWrap(i, j) == sidx[j + 1] - sidx[i + 1]
seqsep(i, j) ==
  LET d == sidx[j + 1] - sidx[i + 1]
  IN IF nc_cycle THEN ((d + sL \div 2) % sL) - sL \div 2 ELSE d

\* self.nbin = abs(minpos) + maxpos + 1
nbin == Abs(minpos) + maxpos + 1

\* bins = torch.arange(minpos, maxpos); torch.bucketize(v, bins)
bins == minpos..(maxpos - 1)
\* torch.bucketize(v, bins, right=True): a value equal to a boundary falls
\* in the bin above it.
bucketizeRight(v) == Cardinality({b \in bins : b <= v})
bucketize(v) == Cardinality({b \in bins : b < v})
\* self.emb(ib): row ib of the embedding table
EmbW(ib) == (5 * ib + 2) % 7
PE_Cell(i, j) ==
  [ib |-> bucketize(seqsep(i, j)), emb |-> EmbW(bucketize(seqsep(i, j)))]
PE_Zero == [ib |-> 0, emb |-> 0]
PE_Unstriped == [c \in Cells |-> PE_Cell(c[1], c[2])]

\* ---- Templ_emb._get_templ_emb
T1d(i) == (i + seed) % 3
T2d(i, j) == (2 * i + j + seed) % 3
LinEmb(t2, l, r) == t2 + 3 * l + 2 * r + 1
TE_Cell(i, j) == LinEmb(T2d(i, j), T1d(i), T1d(j))
TE_Unstriped == [c \in Cells |-> TE_Cell(c[1], c[2])]

\* ---- Templ_emb._get_templ_rbf
Xyz(i) == (i * i + seed) % 4
MaskT(i, j) == IF (i + 2 * j + seed) % 3 = 0 THEN 0 ELSE 1
rbf(d) == d + 1
cdist(i, j) == Abs(Xyz(i) - Xyz(j))
TR_Cell(i, j) == rbf(cdist(i, j)) * MaskT(i, j)
TR_Unstriped == [c \in Cells |-> TR_Cell(c[1], c[2])]

\* ---- TemplatePairStack.forward (after the PairStr2Pair blocks)
TemplIn(i, j) == (i + 2 * j + seed) % 5
norm(v) == ((2 * v + 1) % 5) + 1
TP_Cell(i, j) == norm(TemplIn(i, j))
TP_Unstriped == [c \in Cells |-> TP_Cell(c[1], c[2])]

\* ---- Recycling.forward
\* msa_prev, pair_prev, state_prev: the previous cycle's outputs, or
\* torch.zeros_like(...) when msa_prev is None (RoseTTAFoldModel.py 150-153)
MsaPrev(i) == IF prev_zero THEN 0 ELSE (i + seed) % 5
PairPrev(i, j) == IF prev_zero THEN 0 ELSE (3 * i + j + seed) % 5
StatePrev(i) == IF prev_zero THEN 0 ELSE (2 * i + seed) % 5
\* nn.LayerNorm and nn.Linear with zero bias: zero is mapped to zero
norm_msa(v) == (2 * v) % 5
norm_pair(v) == (3 * v) % 5
norm_state(v) == (4 * v) % 5
proj_dist(d, l, r) == d + 2 * l + 3 * r
\* the fresh embeddings of self.latent_emb (RoseTTAFoldModel.py 137-144)
MsaFresh(i) == (i + 2 * seed + 1) % 3
PairFresh(i, j) == (i + j + seed) % 3
StateFresh(i) == (2 * i + seed + 1) % 3
\* mask_t[0, t, i, :3]: the backbone atoms of residue i that template t
\* resolves; same_chain[0, i, j] as predict builds it from chain lengths
BBAtoms == {"N", "CA", "C"}
MaskTAtoms(t, i) ==
  IF (i + seed + t) % 3 = 2 THEN {"N", "CA"} ELSE BBAtoms
SameChain(i, j) == IF (i + seed) \div 2 = (j + seed) \div 2 THEN 1 ELSE 0
\* mask_prev = mask_t[:, 0] (predict.py 472)
MaskPrev(i) == MaskTAtoms(0, i)
\* mask_prev[:, :, :3].bool().any(dim=-1): one backbone atom is enough
MaskRecycleAny(i, j) ==
  LET m(r) == IF \E a \in BBAtoms : a \in MaskPrev(r) THEN 1 ELSE 0
  IN SameChain(i, j) * (m(i) * m(j))
\* run_prediction, lines 608-612
MaskRecycle(i, j) ==
  LET m(r) == IF \A a \in BBAtoms : a \in MaskPrev(r) THEN 1 ELSE 0
  IN SameChain(i, j) * (m(i) * m(j))
\* if mask_recycle is not None: dist_CB = mask_recycle[..., None] * dist_CB
MaskedDist(d, i, j) == IF rmask_none THEN d ELSE MaskRecycle(i, j) * d
RC_msa == [i \in Idx |-> norm_msa(MsaPrev(i))]
RC_dist == [c \in Cells |-> MaskedDist(rbf(cdist(c[1], c[2])), c[1], c[2])]
RC_pair ==
  [c \in Cells |->
     norm_pair(PairPrev(c[1], c[2]))
       + proj_dist(RC_dist[c], norm_state(StatePrev(c[1])),
                   norm_state(StatePrev(c[2])))]

\* ---- inputs
Gaps == {1, 31, 33, 101}
RECURSIVE IdxSeqs(_)
IdxSeqs(l) ==
  IF l = 1 THEN {<<0>>}
  ELSE {q \o <<q[l - 1] + g>> : q \in IdxSeqs(l - 1), g \in Gaps}

StripedFns == {"posenc", "templ_emb", "templ_rbf", "templ_pair", "recycl"}

InitStripe ==
  /\ sfn \in StripedFns
  /\ spc = "start"
  /\ sL \in 1..MaxL
  /\ stride \in -1..MaxL
  /\ training \in BOOLEAN
  /\ strides_none \in (IF sfn = "templ_pair" THEN BOOLEAN ELSE {FALSE})
  /\ rmask_none \in (IF sfn = "recycl" THEN BOOLEAN ELSE {FALSE})
  /\ nc_cycle \in (IF sfn = "posenc" THEN BOOLEAN ELSE {FALSE})
  /\ sidx \in (IF sfn = "posenc" THEN IdxSeqs(sL) ELSE {[k \in 1..sL |-> k - 1]})
  /\ seed \in 0..MaxSeed
  /\ si = 0 /\ sj = 0 /\ nst = <<>>
  /\ sout = <<>> /\ smsa = <<>> /\ sdist = <<>> /\ sw = <<>>
  /\ prev_zero \in (IF sfn = "recycl" THEN BOOLEAN ELSE {FALSE})
  /\ sstate = <<>>

InitS == InitPred /\ weights_found /\ InitStripe /\ FunIdle

sinputs == <<sfn, sL, stride, training, strides_none, rmask_none, nc_cycle,
             sidx, seed, prev_zero>>

\* ---- PositionalEncoding2D.forward: lines 36-44 and 55-57
PE_Enter ==
  /\ UNCHANGED <<predvars, funvars>>
  /\ sfn = "posenc" /\ spc = "start"
  /\ IF StrideOf > 0 /\ StrideOf < sL
     THEN /\ sout' = Const(Cells, PE_Zero)
          /\ sw' = [main |-> Const(Cells, 0)]
          /\ spc' = "loop"
     ELSE /\ sout' = PE_Unstriped
          /\ sw' = [main |-> Const(Cells, 1)]
          /\ spc' = "done"
  /\ sdist' = [c \in Cells |-> seqsep(c[1], c[2])]
  /\ si' = 0 /\ sj' = 0
  /\ UNCHANGED <<sinputs, sstate, nst, smsa>>

\* One pass of the inner loop, lines 45-54: block (si, sj).
PE_Block ==
  /\ UNCHANGED <<predvars, funvars>>
  /\ sfn = "posenc" /\ spc = "loop"
  /\ LET rows == Rows(si, StrideOf, sL)
         cols == Rows(sj, StrideOf, sL)
         n == NStripes(sL, StrideOf)
         blk == {c \in Cells : c[1] \in rows /\ c[2] \in cols}
     IN /\ sout' = [c \in Cells |->
                      IF c \in blk THEN PE_Cell(c[1], c[2]) ELSE sout[c]]
        /\ sw' = [main |-> Bump(sw.main, blk)]
        /\ IF sj + 1 < n
           THEN si' = si /\ sj' = sj + 1 /\ spc' = "loop" /\ nst' = nst
           ELSE IF si + 1 < n
                THEN si' = si + 1 /\ sj' = 0 /\ spc' = "loop" /\ nst' = nst
                ELSE si' = si + 1 /\ sj' = 0 /\ spc' = "done"
                       /\ nst' = Append(nst, si + 1)
  /\ UNCHANGED <<sinputs, sstate, smsa, sdist>>

\* The end of one pass of a loop over row stripes: the next stripe, or the
\* loop is over and control is at `after`.
LoopStep(n, after) ==
  /\ si' = si + 1
  /\ IF si + 1 < n
     THEN spc' = spc /\ nst' = nst
     ELSE spc' = after /\ nst' = Append(nst, si + 1)

\* ---- Templ_emb._get_templ_emb: lines 296-311 and 315-318
TE_Enter ==
  /\ UNCHANGED <<predvars, funvars>>
  /\ sfn = "templ_emb" /\ spc = "start"
  /\ IF StrideOf > 0 /\ StrideOf < sL
     THEN /\ sout' = Const(Cells, 0)
          /\ sw' = [main |-> Const(Idx, 0)]
          /\ spc' = "loop"
     ELSE /\ sout' = TE_Unstriped
          /\ sw' = [main |-> Const(Idx, 1)]
          /\ spc' = "done"
  /\ si' = 0
  /\ UNCHANGED <<sinputs, sstate, sj, nst, smsa, sdist>>

\* Lines 312-314: out[:, :, rows] = self.emb(templ[:, :, rows])
TE_Stripe ==
  /\ UNCHANGED <<predvars, funvars>>
  /\ sfn = "templ_emb" /\ spc = "loop"
  /\ LET rows == Rows(si, StrideOf, sL)
     IN /\ sout' = [c \in Cells |->
                      IF c[1] \in rows THEN TE_Cell(c[1], c[2]) ELSE sout[c]]
        /\ sw' = [main |-> Bump(sw.main, rows)]
  /\ LoopStep(NStripes(sL, StrideOf), "done")
  /\ UNCHANGED <<sinputs, sstate, sj, smsa, sdist>>

\* ---- Templ_emb._get_templ_rbf: lines 321-334; the loop always runs
TR_Enter ==
  /\ UNCHANGED <<predvars, funvars>>
  /\ sfn = "templ_rbf" /\ spc = "start"
  /\ sout' = Const(Cells, 0)
  /\ sw' = [main |-> Const(Idx, 0)]
  /\ spc' = "loop"
  /\ si' = 0
  /\ UNCHANGED <<sinputs, sstate, sj, nst, smsa, sdist>>

\* Lines 335-342
TR_Stripe ==
  /\ UNCHANGED <<predvars, funvars>>
  /\ sfn = "templ_rbf" /\ spc = "loop"
  /\ LET rows == Rows(si, StrideOf, sL)
     IN /\ sout' = [c \in Cells |->
                      IF c[1] \in rows THEN TR_Cell(c[1], c[2]) ELSE sout[c]]
        /\ sw' = [main |-> Bump(sw.main, rows)]
  /\ LoopStep(NStripes(sL, StrideOf), "done")
  /\ UNCHANGED <<sinputs, sstate, sj, smsa, sdist>>

\* ---- TemplatePairStack.forward: lines 221-229 and 233-236
TP_Enter ==
  /\ UNCHANGED <<predvars, funvars>>
  /\ sfn = "templ_pair" /\ spc = "start"
  /\ IF StrideOfPair > 0 /\ StrideOfPair < sL
     THEN /\ sout' = Const(Cells, 0)
          /\ sw' = [main |-> Const(Idx, 0)]
          /\ spc' = "loop"
     ELSE /\ sout' = TP_Unstriped
          /\ sw' = [main |-> Const(Idx, 1)]
          /\ spc' = "done"
  /\ si' = 0
  /\ UNCHANGED <<sinputs, sstate, sj, nst, smsa, sdist>>

\* Lines 230-232: templ is (B*T, L, L, d), so [:, :, rows] selects columns.
TP_Stripe ==
  /\ UNCHANGED <<predvars, funvars>>
  /\ sfn = "templ_pair" /\ spc = "loop"
  /\ LET rows == Rows(si, StrideOfPair, sL)
     IN /\ sout' = [c \in Cells |->
                      IF c[2] \in rows THEN TP_Cell(c[1], c[2]) ELSE sout[c]]
        /\ sw' = [main |-> Bump(sw.main, rows)]
  /\ LoopStep(NStripes(sL, StrideOfPair), "done")
  /\ UNCHANGED <<sinputs, sstate, sj, smsa, sdist>>

\* ---- Recycling.forward: lines 461-471, and 479-511 when not striped
RC_Enter ==
  /\ UNCHANGED <<predvars, funvars>>
  /\ sfn = "recycl" /\ spc = "start"
  /\ IF StrideOf < sL
     THEN /\ smsa' = [i \in Idx |-> MsaPrev(i)]
          /\ sout' = [c \in Cells |-> PairPrev(c[1], c[2])]
          /\ sdist' = <<>>
          /\ sw' = [norm |-> Const(Idx, 0), dist |-> Const(Idx, 0),
                    proj |-> Const(Idx, 0)]
          /\ spc' = "norm"
     ELSE /\ smsa' = RC_msa
          /\ sout' = RC_pair
          /\ sdist' = RC_dist
          /\ sw' = [norm |-> Const(Idx, 1), dist |-> Const(Idx, 1),
                    proj |-> Const(Idx, 1)]
          /\ spc' = "done"
  /\ sstate' = [i \in Idx |-> norm_state(StatePrev(i))]
  /\ si' = 0
  /\ UNCHANGED <<sinputs, sj, nst>>

\* Lines 472-478: msa and pair are normalised in place, stripe by stripe;
\* when the loop is over, line 490 allocates dist_CB.
RC_Norm ==
  /\ UNCHANGED <<predvars, funvars>>
  /\ sfn = "recycl" /\ spc = "norm"
  /\ LET rows == Rows(si, StrideOf, sL)
         n == NStripes(sL, StrideOf)
     IN /\ smsa' = [i \in Idx |->
                      IF i \in rows THEN norm_msa(smsa[i]) ELSE smsa[i]]
        /\ sout' = [c \in Cells |->
                      IF c[1] \in rows THEN norm_pair(sout[c]) ELSE sout[c]]
        /\ sw' = [sw EXCEPT !.norm = Bump(sw.norm, rows)]
        /\ IF si + 1 < n
           THEN si' = si + 1 /\ spc' = spc /\ nst' = nst /\ sdist' = sdist
           ELSE si' = 0 /\ spc' = "dist" /\ nst' = Append(nst, si + 1)
                  /\ sdist' = Const(Cells, 0)
  /\ UNCHANGED <<sinputs, sstate, sj>>

\* Lines 492-495
RC_Dist ==
  /\ UNCHANGED <<predvars, funvars>>
  /\ sfn = "recycl" /\ spc = "dist"
  /\ LET rows == Rows(si, StrideOf, sL)
     IN /\ sdist' = [c \in Cells |->
                       IF c[1] \in rows THEN rbf(cdist(c[1], c[2])) ELSE sdist[c]]
        /\ sw' = [sw EXCEPT !.dist = Bump(sw.dist, rows)]
  /\ LoopStep(NStripes(sL, StrideOf), "mask")
  /\ UNCHANGED <<sinputs, sstate, sj, sout, smsa>>

\* Lines 499-502
RC_Mask ==
  /\ UNCHANGED <<predvars, funvars>>
  /\ sfn = "recycl" /\ spc = "mask"
  /\ sdist' = [c \in Cells |-> MaskedDist(sdist[c], c[1], c[2])]
  /\ spc' = "proj" /\ si' = 0
  /\ UNCHANGED <<sinputs, sstate, sj, nst, sout, smsa, sw>>

\* Lines 504-507: pair[:, rows] += self.proj_dist(dist_CB[:, rows])
RC_Proj ==
  /\ UNCHANGED <<predvars, funvars>>
  /\ sfn = "recycl" /\ spc = "proj"
  /\ LET rows == Rows(si, StrideOf, sL)
     IN /\ sout' = [c \in Cells |->
                      IF c[1] \in rows
                      THEN sout[c] + proj_dist(sdist[c],
                                               norm_state(StatePrev(c[1])),
                                               norm_state(StatePrev(c[2])))
                      ELSE sout[c]]
        /\ sw' = [sw EXCEPT !.proj = Bump(sw.proj, rows)]
  /\ LoopStep(NStripes(sL, StrideOf), "done")
  /\ UNCHANGED <<sinputs, sstate, sj, smsa, sdist>>

\* RoseTTAFoldModel.py 165-167: the recycle outputs are added to the fresh
\* embeddings.
RC_Merge ==
  /\ UNCHANGED <<predvars, funvars>>
  /\ sfn = "recycl" /\ spc = "done"
  /\ smsa' = [i \in Idx |-> MsaFresh(i) + smsa[i]]
  /\ sout' = [c \in Cells |-> PairFresh(c[1], c[2]) + sout[c]]
  /\ sstate' = [i \in Idx |-> StateFresh(i) + sstate[i]]
  /\ spc' = "merged"
  /\ UNCHANGED <<sinputs, si, sj, nst, sdist, sw>>

NextStripe ==
  \/ PE_Enter \/ PE_Block
  \/ TE_Enter \/ TE_Stripe
  \/ TR_Enter \/ TR_Stripe
  \/ TP_Enter \/ TP_Stripe
  \/ RC_Enter \/ RC_Norm \/ RC_Dist \/ RC_Mask \/ RC_Proj \/ RC_Merge

SpecStripe == InitS /\ [][NextStripe]_vars

\* =====================================================================
\* predict.py: functions called on their own.
MaxBin == 3

\* Fractions num/den with den > 0.
RECURSIVE GCD(_, _)
GCD(a, b) == IF b = 0 THEN a ELSE GCD(b, a % b)
\* n/dn in lowest terms
Q(n, dn) ==
  LET g == GCD(Abs(n), dn)
  IN [num |-> n \div g, den |-> dn \div g]
QEq(x, y) == x.num * y.den = y.num * x.den
QAdd(x, y) == Q(x.num * y.den + y.num * x.den, x.den * y.den)
QSub(x, y) == Q(x.num * y.den - y.num * x.den, x.den * y.den)
QMul(x, y) == Q(x.num * y.num, x.den * y.den)

\* torch.linspace(a, b, n)[k] = a + k * (b - a) / (n - 1); [a] when n = 1
Linspace(a, b, n) ==
  [k \in 0..(n - 1) |->
     IF n = 1 THEN a
     ELSE QAdd(a, QMul(Q(k, n - 1), QSub(b, a)))]

\* A logit so far above the others that their exponentials underflow.
Sat == 100
\* nn.Softmax(dim=1) on logits in {0, Sat}: the mass is shared by the
\* largest logits.
Softmax(lg) ==
  LET top == {k \in DOMAIN lg : \A m \in DOMAIN lg : lg[m] <= lg[k]}
  IN [k \in DOMAIN lg |-> IF k \in top THEN Q(1, Cardinality(top)) ELSE Q(0, 1)]

\* torch.sum(bins * p, dim=1)
\* the sum of bs[k] * p[k] over lo <= k <= hi
RECURSIVE SumRange(_, _, _, _)
SumRange(bs, p, lo, hi) ==
  IF lo > hi THEN Q(0, 1)
  ELSE IF lo = hi THEN QMul(bs[lo], p[lo])
  ELSE LET mid == (lo + hi) \div 2
       IN QAdd(SumRange(bs, p, lo, mid), SumRange(bs, p, mid + 1, hi))
Expect(bs, p, n) == SumRange(bs, p, 0, n - 1)

\* self.lddt_bins = torch.linspace(1.0 / 50, 1.0, 50) - 1.0 / 100
nlddt == 50
lddt_bins ==
  [k \in 0..(nlddt - 1) |->
     QSub(Linspace(Q(1, nlddt), Q(1, 1), nlddt)[k], Q(1, 2 * nlddt))]
\* lines 686-689: one residue's pred_lddt
lddt_unbin(lg) == Expect(lddt_bins, Softmax(lg), nlddt)

\* pae_unbin (lines 185-198): one residue pair's value; bin_step = 0.5
bin_step == Q(1, 2)
pae_bins(n) == Linspace(bin_step, QMul(bin_step, Q(n - 1, 1)), n)
pae_unbin(lg) ==
  LET n == Cardinality(DOMAIN lg)
  IN Expect(pae_bins(n), Softmax(lg), n)

\* Logits whose softmax is one-hot on bin k, or uniform when k = n.
PeakLogits(n, k) == [m \in 0..(n - 1) |-> IF m = k THEN Sat ELSE 0]
\* The bin a row of logits is one-hot on, or -1.
PeakOf(lg) ==
  IF \E k \in DOMAIN lg : lg = PeakLogits(Cardinality(DOMAIN lg), k)
  THEN CHOOSE k \in DOMAIN lg : lg = PeakLogits(Cardinality(DOMAIN lg), k)
  ELSE -1

PaeInputs(x) ==
  \E n \in 1..MaxBin : \E a \in 0..n, b \in 0..n :
    x = <<PeakLogits(n, a), PeakLogits(n, b)>>
LddtInputs(x) == \E k \in 0..nlddt : x = <<PeakLogits(nlddt, k)>>

\* ---- the torsion repair of Predictor.predict, lines 454-463
MaxEntries == 2
\* A component of alpha: NaN, zero or another finite value.
AlphaVals == {"nan", "0.0", "0.5"}
\* One (template, residue, torsion) entry of get_torsions' result: the two
\* components of alpha and alpha_mask.  get_torsions is not part of the
\* sources at hand; its result is taken to be any tensor.
AlphaEntries == [c0 : AlphaVals, c1 : AlphaVals, mask : BOOLEAN]
isnan(v) == v = "nan"
\* alpha_mask = logical_and(alpha_mask, ~isnan(alpha[..., 0]))
\* alpha[isnan(alpha)] = 0.0
torsion_repair(e) ==
  [c0 |-> IF isnan(e.c0) THEN "0.0" ELSE e.c0,
   c1 |-> IF isnan(e.c1) THEN "0.0" ELSE e.c1,
   mask |-> e.mask /\ ~isnan(e.c0)]
TorsionInputs(x) == \E n \in 1..MaxEntries : x \in [1..n -> AlphaEntries]

\* Ls_i as parse_a3m returns it for k columns: one chain, or a chain of one
\* column followed by the rest
ChainOptions(k) == {<<k>>} \cup {<<1, m>> : m \in {k - 1} \ {0}}

\* ---- pass 1 of Predictor.predict, lines 320-371, for one input
MaxCols == 3
MaxRanges == 2
DigitChars == <<"0", "1", "2", "3", "4", "5", "6", "7", "8", "9">>
DigitVal(c) == CHOOSE v \in 0..9 : DigitChars[v + 1] = c
\* str(n), as a sequence of characters
RECURSIVE Str(_)
Str(n) ==
  IF n < 10 THEN <<DigitChars[n + 1]>>
  ELSE Str(n \div 10) \o <<DigitChars[(n % 10) + 1]>>
\* int(x)
RECURSIVE IntOf(_)
IntOf(cs) ==
  IF Len(cs) = 1 THEN DigitVal(cs[1])
  ELSE 10 * IntOf(SubSeq(cs, 1, Len(cs) - 1)) + DigitVal(cs[Len(cs)])
\* txt.split(sep)
RECURSIVE Split(_, _)
Split(cs, sep) ==
  IF \A k \in 1..Len(cs) : cs[k] # sep THEN <<cs>>
  ELSE LET k == CHOOSE m \in 1..Len(cs) :
                  cs[m] = sep /\ \A q \in 1..(m - 1) : cs[q] # sep
       IN <<SubSeq(cs, 1, k - 1)>> \o Split(SubSeq(cs, k + 1, Len(cs)), sep)
\* to_ranges (lines 320-323); the texts at hand hold no white space
to_ranges(txt) ==
  LET rs == Split(txt, ",")
  IN [r \in 1..Len(rs) |->
        LET xs == Split(rs[r], "-")
        IN [x \in 1..Len(xs) |-> IntOf(xs[x])]]

\* a[i] = True for an index i that may be negative
PyIndex(i, n) == IF i < 0 THEN i + n ELSE i
\* the indices of a[lo:hi] in a sequence of n items, 0 <= lo
PySlice(lo, hi, n) == lo..(Min(hi, n) - 1)
\* a3m_mask[(i[0] - 1) : (i[1] - 1)]: the last residue of a range is left out
a3m_mask_open(n, ranges) ==
  [q \in 0..(n - 1) |->
     \E k \in 1..Len(ranges) :
       IF Len(ranges[k]) = 1
       THEN q = PyIndex(ranges[k][1] - 1, n)
       ELSE q \in PySlice(ranges[k][1] - 1, ranges[k][2] - 1, n)]
\* lines 351-360: a3m_mask, indexed from 0
a3m_mask(n, ranges) ==
  [q \in 0..(n - 1) |->
     \E k \in 1..Len(ranges) :
       IF Len(ranges[k]) = 1
       THEN q = PyIndex(ranges[k][1] - 1, n)
       ELSE q \in PySlice(ranges[k][1] - 1, ranges[k][2], n)]
\* lines 353-359: Ls_new
Ls_new(ranges) ==
  [k \in 1..Len(ranges) |->
     IF Len(ranges[k]) = 1 THEN 1 ELSE ranges[k][2] - ranges[k][1] + 1]
\* msa_i[:, a3m_mask]: the columns where the mask is True, in order
RECURSIVE Masked(_, _, _)
Masked(row, mask, q) ==
  IF q >= Len(row) THEN <<>>
  ELSE (IF mask[q] THEN <<row[q + 1]>> ELSE <<>>) \o Masked(row, mask, q + 1)

\* lines 331-371 for one input: the name is split at "[", the file is parsed
\* (parse_a3m gives inp.msa, inp.ins, inp.Ls_i) and the columns are filtered.
pass1(inp) ==
  LET a3m_i == Split(inp.name, "[")
  IN IF Len(a3m_i) > 1
     THEN LET a3m_range == to_ranges(SubSeq(a3m_i[2], 1, Len(a3m_i[2]) - 1))
              mask == a3m_mask(SumSeq(inp.Ls_i), a3m_range)
          IN [msa |-> Masked(inp.msa, mask, 0),
              ins |-> Masked(inp.ins, mask, 0),
              Ls |-> Ls_new(a3m_range)]
     ELSE [msa |-> inp.msa, ins |-> inp.ins, Ls |-> inp.Ls_i]

\* name[r1,...,rk] as text
FormatRange(r) ==
  IF Len(r) = 1 THEN Str(r[1]) ELSE Str(r[1]) \o <<"-">> \o Str(r[2])
RECURSIVE FormatRanges(_)
FormatRanges(rs) ==
  IF Len(rs) = 1 THEN FormatRange(rs[1])
  ELSE FormatRange(rs[1]) \o <<",">> \o FormatRanges(Tail(rs))
\* The ranges 'a' and 'a-b' within n columns, 1-indexed and inclusive.
RangesIn(n) ==
  {<<a>> : a \in 1..n}
    \cup {r \in {<<a, b>> : a \in 1..n, b \in 1..n} : r[1] <= r[2]}
RangeLists(n) == UNION {[1..k -> RangesIn(n)] : k \in 1..MaxRanges}
\* One input of n columns: column q holds token 10 + q and insertion 20 + q.
Pass1Input(n, ls, rs) ==
  [name |-> IF rs = <<>> THEN <<"a">>
            ELSE <<"a", "[">> \o FormatRanges(rs) \o <<"]">>,
   msa |-> [q \in 1..n |-> 10 + q],
   ins |-> [q \in 1..n |-> 20 + q],
   Ls_i |-> ls,
   ranges |-> rs]
Pass1Inputs(x) ==
  \E n \in 1..MaxCols :
    \E ls \in ChainOptions(n), rs \in RangeLists(n) \cup {<<>>} :
      x = Pass1Input(n, ls, rs)

\* ---- pass 2 of Predictor.predict, lines 410-452 and 476-500
MaxRes == 3
MaxTempl == 2
\* The atom mask of one residue: the backbone atoms N, CA, C (the first
\* three of the 27) and the remaining atoms taken together.
AtomMask(n, ca, c, rest) == [bb |-> <<n, ca, c>>, rest |-> rest]
\* What a template reader supplies for one residue of one template: all
\* atoms, a backbone without C, or nothing (an unaligned residue).
ReaderRecords ==
  <<[mask |-> AtomMask(TRUE, TRUE, TRUE, TRUE), tok |-> "aa", conf |-> 1],
    [mask |-> AtomMask(TRUE, TRUE, FALSE, FALSE), tok |-> "aa", conf |-> 1],
    [mask |-> AtomMask(FALSE, FALSE, FALSE, FALSE), tok |-> "gap", conf |-> 0]>>
\* read_templates / read_template_pdb: the record of template t, residue r
\* of input i
ReaderRecord(i, t, r, sd) == ReaderRecords[((i + 2 * t + r + sd) % 3) + 1]

\* mask_t = torch.full(..., True): an empty slot counts as resolved
DefaultEntryResolved ==
  [mask |-> AtomMask(TRUE, TRUE, TRUE, TRUE), tok |-> "gap", conf |-> 0]
\* lines 410-414: mask_t all False, t1d the gap token with a last channel 0
DefaultEntry ==
  [mask |-> AtomMask(FALSE, FALSE, FALSE, FALSE), tok |-> "gap", conf |-> 0]

\* sum(Ls_blocked[:i]) for the blocks bs, i counted from 1
RECURSIVE StartRes(_, _)
StartRes(bs, i) == IF i = 1 THEN 0 ELSE StartRes(bs, i - 1) + bs[i - 1].L
\* Ls: the chain lengths of all inputs (Ls.extend(Ls_i))
RECURSIVE AllChains(_)
AllChains(bs) == IF bs = <<>> THEN <<>> ELSE Head(bs).Ls_i \o AllChains(Tail(bs))
\* lines 416-441: the inputs that wrote template t at residue r
Writers(inp, t, r) ==
  {i \in 1..Len(inp.blocks) :
     /\ inp.blocks[i].kind # "none"
     /\ t < inp.blocks[i].ntmpl
     /\ StartRes(inp.blocks, i) <= r
     /\ r < StartRes(inp.blocks, i) + inp.blocks[i].L}
\* lines 416-441: maxtmpl; only the three-field inputs raise it
RECURSIVE MaxTmpl(_)
MaxTmpl(bs) ==
  IF bs = <<>> THEN 1
  ELSE LET m == MaxTmpl(Tail(bs))
       IN IF Head(bs).kind = "hhr" /\ Head(bs).ntmpl > m
          THEN Head(bs).ntmpl ELSE m
\* all(mask_t[..., :3])
bb_all(e) == e.mask.bb[1] /\ e.mask.bb[2] /\ e.mask.bb[3]

\* lines 410-452 and 476-500: the assembled templates.  Residues and
\* template slots are counted from 0.
\* lines 487-493: the loop over the chains of every subunit copy
RECURSIVE IndexLoop(_, _, _)
IndexLoop(chains, i_start, st) ==
  IF chains = <<>> THEN st
  ELSE LET i_stop == i_start + Head(chains)
           block == i_start..(i_stop - 1)
       IN IndexLoop(Tail(chains), i_stop,
            [idx_pdb |->
               [q \in DOMAIN st.idx_pdb |->
                  IF q >= i_stop THEN st.idx_pdb[q] + 100 ELSE st.idx_pdb[q]],
             same_chain |->
               [c \in DOMAIN st.same_chain |->
                  IF c[1] \in block /\ c[2] \in block THEN 1
                  ELSE st.same_chain[c]]])
\* idx_pdb = torch.arange(Osub * L); same_chain = torch.zeros(...)
IndexInit(n) ==
  [idx_pdb |-> [q \in 0..(n - 1) |-> q],
   same_chain |-> [c \in (0..(n - 1)) \X (0..(n - 1)) |-> 0]]
\* the loop without `for o_i in range(Osub)`: one copy is indexed
indexOneCopy(chains, copies) ==
  IndexLoop(chains, 0, IndexInit(copies * SumSeq(chains)))
\* lines 484-493
index(chains, copies) ==
  IndexLoop(Repeat(chains, copies), 0, IndexInit(copies * SumSeq(chains)))

pass2(inp) ==
  LET Ltot == SumSeq(AllChains(inp.blocks))
      effL == inp.Osub * Ltot
      kept == Min(MaxTmpl(inp.blocks), inp.n_templ)
      entry(t, r) ==
        IF Writers(inp, t, r) = {} THEN DefaultEntry
        ELSE LET i == CHOOSE w \in Writers(inp, t, r) : TRUE
             IN ReaderRecord(i, t, r - StartRes(inp.blocks, i), inp.seed)
      asu == [t \in 0..(kept - 1) |-> [r \in 0..(Ltot - 1) |-> entry(t, r)]]
      templ == [t \in 0..(kept - 1) |->
                  [r \in 0..(effL - 1) |-> asu[t][r % Ltot]]]
      ix == index(AllChains(inp.blocks), inp.Osub)
      same == ix.same_chain
      mask_2d == [t \in 0..(kept - 1) |-> [r \in 0..(effL - 1) |->
                    IF bb_all(templ[t][r]) THEN 1 ELSE 0]]
  IN [templ |-> templ,
      idx_pdb |-> ix.idx_pdb,
      same_chain |-> same,
      mask_t_2d |->
        [t \in 0..(kept - 1) |->
           [c \in (0..(effL - 1)) \X (0..(effL - 1)) |->
              mask_2d[t][c[2]] * mask_2d[t][c[1]] * same[c]]]]

\* An input names no template, a template PDB file (one template) or an
\* hhr/atab pair (up to n_templ templates).
TemplKinds(nt) ==
  {[kind |-> "none", n |-> 0], [kind |-> "pdb", n |-> 1]}
    \cup {[kind |-> "hhr", n |-> m] : m \in 1..nt}
BlocksOf(k, nt) ==
  {[L |-> k, Ls_i |-> c, kind |-> kd.kind, ntmpl |-> kd.n] :
     c \in ChainOptions(k), kd \in TemplKinds(nt)}
RECURSIVE BlockLists(_, _)
BlockLists(n, nt) ==
  IF n = 0 THEN {<<>>}
  ELSE UNION {{<<b>> \o rest : b \in BlocksOf(k, nt),
                               rest \in BlockLists(n - k, nt)} : k \in 1..n}
Pass2Inputs(x) ==
  \E n \in 1..MaxRes, nt \in 1..MaxTempl :
    \E bs \in BlockLists(n, nt), sd \in 0..MaxSeed, os \in 1..MaxO :
      x = [n_templ |-> nt, blocks |-> bs, seed |-> sd, Osub |-> os]

\* ---- merge_a3m_homo (lines 201-261).  A tensor of shape (n, l) is a
\* function on (0..n-1) \X (0..l-1).
MaxN == 2
Full(n, l, v) == [x \in (0..(n - 1)) \X (0..(l - 1)) |-> v]
\* dst[rows, cols] = F(row, col)
Assign(dst, rows, cols, F(_, _)) ==
  [x \in DOMAIN dst |->
     IF x[1] \in rows /\ x[2] \in cols THEN F(x[1], x[2]) ELSE dst[x]]

\* lines 229-237 without `start_N += N`: every copy is written to the rows
\* of the first
RECURSIVE DiagLoopRowsFixed(_, _, _, _, _, _, _)
DiagLoopRowsFixed(i_c, nmer, orig, N, l, start, out) ==
  IF i_c >= nmer THEN out
  ELSE LET cols == start.L..(start.L + l - 1)
           Query(r, c) == orig[<<0, c - start.L>>]
           Rest(r, c) == orig[<<r - start.N + 1, c - start.L>>]
           row0 == Assign(out, {0}, cols, Query)
       IN DiagLoopRowsFixed(i_c + 1, nmer, orig, N, l,
                  [L |-> start.L + l, N |-> start.N],
                  Assign(row0, start.N..(start.N + N - 1), cols, Rest))
\* lines 229-237, for one of msa and ins
RECURSIVE DiagLoop(_, _, _, _, _, _, _)
DiagLoop(i_c, nmer, orig, N, l, start, out) ==
  IF i_c >= nmer THEN out
  ELSE LET cols == start.L..(start.L + l - 1)
           Query(r, c) == orig[<<0, c - start.L>>]
           Rest(r, c) == orig[<<r - start.N + 1, c - start.L>>]
           row0 == Assign(out, {0}, cols, Query)
       IN DiagLoop(i_c + 1, nmer, orig, N, l,
                  [L |-> start.L + l, N |-> start.N + N],
                  Assign(row0, start.N..(start.N + N - 1), cols, Rest))
\* lines 250-259, for one of msa and ins
RECURSIVE DefaultLoop(_, _, _, _, _, _, _)
DefaultLoop(i_c, nmer, orig, N, l, start, out) ==
  IF i_c >= nmer THEN out
  ELSE LET cols == start..(start + l - 1)
           Query(r, c) == orig[<<0, c - start>>]
           Rest(r, c) == orig[<<r - N + 1, c - start>>]
           row0 == Assign(out, {0}, cols, Query)
       IN DefaultLoop(i_c + 1, nmer, orig, N, l, start + l,
                      Assign(row0, N..(2 * N - 2), cols, Rest))
\* one of the two tensors: orig of shape (N, l), fill 20 for msa, 0 for ins
merge_one(orig, N, l, nmer, mode, fill) ==
  IF mode = "repeat"
  THEN [x \in (0..(N - 1)) \X (0..(l * nmer - 1)) |-> orig[<<x[1], x[2] % l>>]]
  ELSE IF mode = "diag"
  THEN DiagLoop(0, nmer, orig, N - 1, l, [L |-> 0, N |-> 1],
                Full(1 + (N - 1) * nmer, l * nmer, fill))
  ELSE LET Orig(r, c) == orig[<<r, c>>]
       IN DefaultLoop(1, nmer, orig, N, l, l,
                      Assign(Full(2 * N - 1, l * nmer, fill),
                             0..(N - 1), 0..(l - 1), Orig))
\* merge_a3m_homo; msa_orig and ins_orig are only read
merge_a3m_homo(inp) ==
  [msa |-> merge_one(inp.msa_orig, inp.N, inp.L, inp.nmer, inp.mode, 20),
   ins |-> merge_one(inp.ins_orig, inp.N, inp.L, inp.nmer, inp.mode, 0),
   msa_orig |-> inp.msa_orig, ins_orig |-> inp.ins_orig]
\* an alignment of n rows and l columns of distinct tokens, none a gap,
\* and positive insertion counts; msa_concat_mode is any string
MergeModes == {"repeat", "diag", "default"}
MergeInputs(x) ==
  \E n \in 1..MaxN, l \in 1..MaxCols, k \in 1..MaxO, md \in MergeModes :
    x = [N |-> n, L |-> l, nmer |-> k, mode |-> md,
         msa_orig |-> [c \in (0..(n - 1)) \X (0..(l - 1)) |->
                         (c[1] * l + c[2]) % 20],
         ins_orig |-> [c \in (0..(n - 1)) \X (0..(l - 1)) |->
                         1 + c[1] * l + c[2]]]

FunInputs(f, x) ==
  \/ f = "pae_unbin" /\ PaeInputs(x)
  \/ f = "pass2" /\ Pass2Inputs(x)
  \/ f = "lddt" /\ LddtInputs(x)
  \/ f = "torsion_repair" /\ TorsionInputs(x)
  \/ f = "pass1" /\ Pass1Inputs(x)
  \/ f = "merge_a3m_homo" /\ MergeInputs(x)

Funs ==
  {"pae_unbin", "lddt", "torsion_repair", "pass1", "pass2", "merge_a3m_homo"}

InitFun ==
  /\ hfn \in Funs
  /\ hpc = "start"
  /\ FunInputs(hfn, hin)
  /\ hout = <<>>

InitI == InitPred /\ weights_found /\ StripeIdle /\ InitFun

\* logits_pae = pae_unbin(logits_pae.half()), line 690
Call_pae_unbin ==
  /\ UNCHANGED <<predvars, stripevars>>
  /\ hfn = "pae_unbin" /\ hpc = "start"
  /\ hout' = [k \in DOMAIN hin |-> pae_unbin(hin[k])]
  /\ hpc' = "done"
  /\ UNCHANGED <<hfn, hin>>

\* pred_lddt of lines 686-689
Call_lddt ==
  /\ UNCHANGED <<predvars, stripevars>>
  /\ hfn = "lddt" /\ hpc = "start"
  /\ hout' = [k \in DOMAIN hin |-> lddt_unbin(hin[k])]
  /\ hpc' = "done"
  /\ UNCHANGED <<hfn, hin>>

\* Predictor.predict, lines 454-463
Call_torsion_repair ==
  /\ UNCHANGED <<predvars, stripevars>>
  /\ hfn = "torsion_repair" /\ hpc = "start"
  /\ hout' = [k \in DOMAIN hin |-> torsion_repair(hin[k])]
  /\ hpc' = "done"
  /\ UNCHANGED <<hfn, hin>>

\* Predictor.predict, lines 331-371, for one input
Call_pass1 ==
  /\ UNCHANGED <<predvars, stripevars>>
  /\ hfn = "pass1" /\ hpc = "start"
  /\ hout' = pass1(hin)
  /\ hpc' = "done"
  /\ UNCHANGED <<hfn, hin>>

\* Predictor.predict, lines 410-452 and 476-500
Call_pass2 ==
  /\ UNCHANGED <<predvars, stripevars>>
  /\ hfn = "pass2" /\ hpc = "start"
  /\ hout' = pass2(hin)
  /\ hpc' = "done"
  /\ UNCHANGED <<hfn, hin>>

\* Predictor.predict, lines 478-482 (and 385-388)
Call_merge_a3m_homo ==
  /\ UNCHANGED <<predvars, stripevars>>
  /\ hfn = "merge_a3m_homo" /\ hpc = "start"
  /\ hout' = merge_a3m_homo(hin)
  /\ hpc' = "done"
  /\ UNCHANGED <<hfn, hin>>

NextInputs ==
  \/ Call_pass1
  \/ Call_pass2
  \/ Call_pae_unbin
  \/ Call_lddt
  \/ Call_torsion_repair
  \/ Call_merge_a3m_homo

SpecInputs == InitI /\ [][NextInputs]_vars

\* =====================================================================
\* scripts/util/chothia2HLT.py.  A structure is the sequence of the atoms
\* of the file, in file order; an atom is a record of its annotations and
\* of its position in the file (serial).
MaxHltRes == 3
Hcrop == 115
Lcrop == 110

protein_residues ==
  {"ALA", "ARG", "ASN", "ASP", "CYS", "GLN", "GLU", "GLY", "HIS", "ILE",
   "LEU", "LYS", "MET", "PHE", "PRO", "SER", "THR", "TRP", "TYR", "VAL"}

get_cdr_ranges ==
  [H |-> [H1 |-> <<26, 32>>, H2 |-> <<52, 56>>, H3 |-> <<95, 102>>],
   L |-> [L1 |-> <<24, 34>>, L2 |-> <<50, 56>>, L3 |-> <<89, 97>>]]

\* dct[k] = v on a dict kept in insertion order: a key already present
\* keeps its place and takes the new value
DictSet(dct, k, v) ==
  IF \E i \in DOMAIN dct : dct[i][1] = k
  THEN [i \in DOMAIN dct |-> IF dct[i][1] = k THEN <<k, v>> ELSE dct[i]]
  ELSE Append(dct, <<k, v>>)

RECURSIVE DictSetAll(_, _, _)
DictSetAll(dct, ks, v) ==
  IF ks = <<>> THEN dct ELSE DictSetAll(DictSet(dct, Head(ks), v), Tail(ks), v)

\* chain_mapping = {light_chain: "L", heavy_chain: "H"}: the light chain
\* is visited first
chain_mappingLightFirst(heavy_chain, light_chain, target_chains) ==
  DictSetAll(DictSet(DictSet(<<>>, light_chain, "L"), heavy_chain, "H"),
             target_chains, "T")
\* lines 135-137
chain_mapping(heavy_chain, light_chain, target_chains) ==
  DictSetAll(DictSet(DictSet(<<>>, heavy_chain, "H"), light_chain, "L"),
             target_chains, "T")

\* biotite.structure.residue_iter: a new residue starts where res_id,
\* ins_code, res_name or chain_id changes from one atom to the next
SameResidue(a, b) ==
  /\ a.res_id = b.res_id /\ a.ins_code = b.ins_code
  /\ a.res_name = b.res_name /\ a.chain_id = b.chain_id
RECURSIVE residue_iter(_)
residue_iter(atoms) ==
  IF atoms = <<>> THEN <<>>
  ELSE LET n == CHOOSE k \in 1..Len(atoms) :
                  /\ \A i \in 2..k : SameResidue(atoms[i - 1], atoms[i])
                  /\ k < Len(atoms) => ~SameResidue(atoms[k], atoms[k + 1])
       IN <<SubSeq(atoms, 1, n)>>
            \o residue_iter(SubSeq(atoms, n + 1, Len(atoms)))

\* lines 167-169
CdrAppend(cdr_residues, new_chain_id, res_id) ==
  LET curr_ranges == get_cdr_ranges[new_chain_id]
  IN [cdr \in DOMAIN cdr_residues |->
        IF /\ cdr \in DOMAIN curr_ranges
           /\ curr_ranges[cdr][1] <= res_id /\ res_id <= curr_ranges[cdr][2]
        THEN Append(cdr_residues[cdr], res_id)
        ELSE cdr_residues[cdr]]

\* lines 156-172: the loop over the residues of a heavy or light chain
RECURSIVE HLResidues(_, _, _, _)
HLResidues(rs, new_chain_id, whole_fab, st) ==
  IF rs = <<>> THEN st
  ELSE LET residue == Head(rs)
           res_id == residue[1].res_id
           cropped ==
             /\ ~whole_fab
             /\ \/ new_chain_id = "H" /\ res_id > Hcrop
                \/ new_chain_id = "L" /\ res_id > Lcrop
           st2 ==
             IF <<new_chain_id, res_id>> \in st.processed_residues \/ cropped
             THEN st
             ELSE [st EXCEPT
                     !.cdr_residues = CdrAppend(@, new_chain_id, res_id),
                     !.hl_structure = @ \o residue,
                     !.processed_residues = @ \cup {<<new_chain_id, res_id>>}]
       IN HLResidues(Tail(rs), new_chain_id, whole_fab, st2)

\* lines 146-174: the loop over chain_mapping.items()
RECURSIVE ConvertChains(_, _, _, _)
ConvertChains(items, structure, whole_fab, st) ==
  IF items = <<>> THEN st
  ELSE LET chain_id == Head(items)[1]
           new_chain_id == Head(items)[2]
           InChain(a) == a.chain_id = chain_id
           chain == SelectSeq(structure, InChain)
           atoms == [i \in DOMAIN chain |->
                       [chain[i] EXCEPT !.chain_id = new_chain_id]]
           st2 ==
             IF atoms = <<>> THEN st
             ELSE IF new_chain_id \in {"H", "L"}
             THEN HLResidues(residue_iter(atoms), new_chain_id, whole_fab, st)
             ELSE [st EXCEPT !.t_structure = @ \o atoms]
       IN ConvertChains(Tail(items), structure, whole_fab, st2)

\* convert_to_hlt (lines 118-176)
convert_to_hlt(inp) ==
  LET IsProtein(a) == a.res_name \in protein_residues
      structure == SelectSeq(inp.atoms, IsProtein)
      st == ConvertChains(
              chain_mapping(inp.heavy_chain, inp.light_chain, inp.target_chains),
              structure, inp.whole_fab,
              [hl_structure |-> <<>>, t_structure |-> <<>>,
               processed_residues |-> {},
               cdr_residues |-> [c \in {"H1", "H2", "H3", "L1", "L2", "L3"}
                                   |-> <<>>]])
  IN [hl_structure |-> st.hl_structure, t_structure |-> st.t_structure,
      cdr_residues |-> st.cdr_residues]

\* ---- inputs: files of at most MaxHltRes residues of two atoms each, the
\* chains in the order A, H, L and the residues of a chain in ascending
\* order; the chain IDs given are distinct, and at least one of heavy and
\* light is given (parse_args, lines 79-80)
ChainIDs == <<"A", "H", "L">>
ResKeys ==
  <<[res_id |-> 30, ins_code |-> "", res_name |-> "ALA"],
    [res_id |-> 100, ins_code |-> "", res_name |-> "GLY"],
    [res_id |-> 100, ins_code |-> "A", res_name |-> "SER"],
    [res_id |-> 120, ins_code |-> "", res_name |-> "VAL"],
    [res_id |-> 201, ins_code |-> "", res_name |-> "HOH"]>>
AtomNames == <<"N", "CA">>

RECURSIVE Ascending(_)
Ascending(S) ==
  IF S = {} THEN <<>>
  ELSE LET m == CHOOSE x \in S : \A y \in S : x <= y
       IN <<m>> \o Ascending(S \ {m})

RECURSIVE Flatten(_)
Flatten(ss) == IF ss = <<>> THEN <<>> ELSE Head(ss) \o Flatten(Tail(ss))

\* the atoms of the residues picked by picks[c] for chain ChainIDs[c]
FileAtoms(picks) ==
  LET rows == Flatten([c \in DOMAIN ChainIDs |->
                Flatten([k \in DOMAIN Ascending(picks[c]) |->
                  [a \in DOMAIN AtomNames |->
                     [chain_id |-> ChainIDs[c],
                      res_id |-> ResKeys[Ascending(picks[c])[k]].res_id,
                      ins_code |-> ResKeys[Ascending(picks[c])[k]].ins_code,
                      res_name |-> ResKeys[Ascending(picks[c])[k]].res_name,
                      atom_name |-> AtomNames[a]]]])])
  IN [i \in DOMAIN rows |->
        [serial |-> i, chain_id |-> rows[i].chain_id,
         res_id |-> rows[i].res_id, ins_code |-> rows[i].ins_code,
         res_name |-> rows[i].res_name, atom_name |-> rows[i].atom_name]]

\* args.heavy or args.light when the option is not given
NoChain == "None"
RolesOf(hv, lt, tg) ==
  LET heavy == IF hv = 0 THEN NoChain ELSE ChainIDs[hv]
      light == IF lt = 0 THEN NoChain ELSE ChainIDs[lt]
      Free(c) == c # heavy /\ c # light
  IN [heavy_chain |-> heavy, light_chain |-> light,
      target_chains |-> IF tg THEN SelectSeq(ChainIDs, Free) ELSE <<>>]
HltInputs(x) ==
  \E picks \in [DOMAIN ChainIDs -> SUBSET (DOMAIN ResKeys)] :
    /\ Cardinality(picks[1]) + Cardinality(picks[2]) + Cardinality(picks[3])
         \in 1..MaxHltRes
    /\ \E hv \in 0..3, lt \in 0..3, wf \in BOOLEAN, tg \in BOOLEAN :
         /\ hv # lt
         /\ x = [atoms |-> FileAtoms(picks),
                 heavy_chain |-> RolesOf(hv, lt, tg).heavy_chain,
                 light_chain |-> RolesOf(hv, lt, tg).light_chain,
                 target_chains |-> RolesOf(hv, lt, tg).target_chains,
                 whole_fab |-> wf]

InitH ==
  /\ InitPred /\ weights_found /\ StripeIdle
  /\ hfn = "convert_to_hlt" /\ hpc = "start" /\ HltInputs(hin) /\ hout = <<>>

\* main calls convert_to_hlt (lines 191-199)
Call_convert_to_hlt ==
  /\ UNCHANGED <<predvars, stripevars>>
  /\ hfn = "convert_to_hlt" /\ hpc = "start"
  /\ hout' = convert_to_hlt(hin)
  /\ hpc' = "done"
  /\ UNCHANGED <<hfn, hin>>

NextHLT == Call_convert_to_hlt

SpecHLT == InitH /\ [][NextHLT]_vars

\* ------------------------------------------------------------- claims
\* A run_prediction call has ended, by returning or by raising.
RunHalted == pc \in {"run_done", "raised"}

MaxOf(s) == CHOOSE m \in {s[k] : k \in 1..Len(s)} :
              \A k \in 1..Len(s) : s[k] <= m

\* C1: every run_prediction call with n_recycles >= 0 ends having made
\* exactly n_recycles+1 model calls, for cycles 0..n_recycles in order, and
\* having written the structure file and the .npz archive.
C1_RunCompletes ==
  RunHalted =>
    /\ exc = "none"
    /\ Len(fwd) = n_recycles + 1
    /\ \A k \in 1..Len(fwd) : fwd[k].cycle = k - 1
    /\ pdb # None /\ npz # None

\* C2: when a run has ended, the retained best_xyz, best_logit, best_lddt
\* and best_pae are the outputs of a cycle whose mean pLDDT is the maximum
\* over the cycles executed.
C2_BestIsMax ==
  RunHalted =>
    /\ best_xyz.kind = "xyz" /\ best_logit.kind = "logit"
    /\ best_pae.kind = "pae" /\ best_lddt.t.kind = "lddt"
    /\ best_lddt.mean = MaxOf(outs)
    /\ outs[best_xyz.cycle + 1] = MaxOf(outs)

\* C3: when a run has ended, the retained cycle is the earliest cycle that
\* attains the best score: a later cycle with an equal score has not
\* replaced it.
C3_TieKeepsEarlier ==
  RunHalted =>
    /\ best_xyz.kind = "xyz"
    /\ \A k \in 1..Len(outs) :
         outs[k] >= outs[best_xyz.cycle + 1] => best_xyz.cycle + 1 <= k

\* The four best slots hold the outputs of one cycle, or are all empty.
SameOrigin ==
  \/ best_xyz = None /\ best_logit = None /\ best_pae = None
       /\ best_lddt = NoLddt
  \/ \E c \in 0..n_recycles :
       /\ best_xyz = Out("xyz", calls, i_trial, c)
       /\ best_logit = Out("logit", calls, i_trial, c)
       /\ best_pae = Out("pae", calls, i_trial, c)
       /\ best_lddt.t = Out("lddt", calls, i_trial, c)

\* C4: the four best slots always originate from one cycle, and when a run
\* has ended the coordinates in the structure file and the dist, lddt and
\* pae arrays of the archive are that one cycle's outputs.
C4_OneCycleEmitted ==
  /\ pc \in {"cycle", "post", "log", "compare", "run_done"} => SameOrigin
  /\ RunHalted =>
       \E c \in 0..n_recycles :
         /\ pdb # None /\ npz # None
         /\ \A r \in 1..Lasu : pdb.xyz[r].t = Out("xyz", calls, i_trial, c)
         /\ npz.dist = Out("logit", calls, i_trial, c)
         /\ npz.lddt = Out("lddt", calls, i_trial, c)
         /\ npz.pae = Out("pae", calls, i_trial, c)

\* C5: when a run has ended, every cycle k in 1..n_recycles has called the
\* model with the msa, pair, state, coordinates and symmsub that cycle k-1
\* returned.
C5_CycleFeedsNext ==
  RunHalted =>
    \A k \in 1..n_recycles :
      /\ Len(fwd) >= k + 1
      /\ fwd[k + 1].recycle = [msa |-> Out("msa", calls, i_trial, k - 1),
                               pair |-> Out("pair", calls, i_trial, k - 1),
                               state |-> Out("state", calls, i_trial, k - 1)]
      /\ fwd[k + 1].xyz_prev = Out("xyz", calls, i_trial, k - 1)
      /\ fwd[k + 1].symmsub = Out("symmsub", calls, i_trial, k - 1)

\* C6: when the recycle loop of a run_prediction call is entered, msa_prev,
\* pair_prev and state_prev are None and the best slots are empty (score
\* -1), whatever an earlier prediction left behind, and the first model
\* call of the run gets all-zero placeholders for the previous msa, pair
\* and state.
C6_FreshRun ==
  /\ (pc = "cycle" /\ i_cycle = 0) =>
       /\ msa_prev = None /\ pair_prev = None /\ state_prev = None
       /\ best_lddt.mean = -1
       /\ best_xyz = None /\ best_logit = None /\ best_pae = None
  /\ Len(fwd) >= 1 =>
       /\ fwd[1].cycle = 0
       /\ fwd[1].recycle = [msa |-> Zeros("msa"), pair |-> Zeros("pair"),
                            state |-> Zeros("state")]

\* A second predict call has made its first model call after an earlier
\* call left its recycle cache behind.
C6_Witness ==
  /\ calls >= 2 /\ pc = "post" /\ Len(fwd) = 1
  /\ msa_prev = Out("msa", calls, 0, 0)

\* C7: a model call gets a non-None mask_recycle exactly when it is the
\* call of cycle 0, and once line 682 has run the mask is None for the
\* rest of the run.
C7_MaskOnce ==
  /\ \A k \in 1..Len(fwd) :
       (fwd[k].mask_recycle # None) <=> (fwd[k].cycle = 0)
  /\ (Len(fwd) >= 1 /\ pc # "post") => mask_recycle = None

\* Cycle 0 called the model with a mask, and the mask has been cleared.
C7_Witness ==
  /\ pc = "log" /\ Len(fwd) = 1
  /\ fwd[1].mask_recycle = MaskRecycleInit
  /\ mask_recycle = None

\* C8: when a run has ended, the structure file holds O*Lasu residues,
\* block 0 is the best asymmetric unit unchanged, block i is the unit
\* rotated by symmRs[i], and sequence and pLDDT of every block are copies
\* of the unit's.
C8_SymmetryExpansion ==
  RunHalted =>
    /\ pdb # None
    /\ DOMAIN pdb.xyz = 1..(O * Lasu)
    /\ \A r \in 1..Lasu : pdb.xyz[r] = Point(best_xyz, r)
    /\ \A i \in 1..(O - 1) : \A r \in 1..Lasu :
         /\ pdb.xyz[i * Lasu + r] = ApplySymmR(i, Point(best_xyz, r))
         /\ pdb.seq[i * Lasu + r] = pdb.seq[r]
         /\ pdb.bfacts[i * Lasu + r] = pdb.bfacts[r]

\* The striped branch is taken: inference mode and 0 < stride < L.
Striped == ~training /\ ~strides_none /\ stride > 0 /\ stride < sL

\* ceil(l / s)
Ceil(l, s) == CHOOSE n \in 0..l : n * s >= l /\ (n - 1) * s < l

\* Every cell (row) was assigned exactly once by every loop.
WrittenOnce == \A k \in DOMAIN sw : \A x \in DOMAIN sw[k] : sw[k][x] = 1

\* C9: for 0 < S < L in inference mode, when the block-wise loop of
\* PositionalEncoding2D.forward is over, every cell of the (L, L) output was
\* assigned exactly once and holds the bin index and embedding of the
\* single-pass computation.
C9_PosEncStriped ==
  (sfn = "posenc" /\ spc = "done" /\ Striped) =>
    /\ WrittenOnce
    /\ sout = PE_Unstriped

\* L = 3 with stride 2: the last row and column block is truncated.
C9_Witness ==
  /\ sfn = "posenc" /\ spc = "done" /\ Striped
  /\ sL = 3 /\ stride = 2 /\ si = 2
  /\ sidx = <<0, 1, 102>>

\* C10: for 0 < S < L in inference mode, every stripe loop of
\* _get_templ_emb, _get_templ_rbf, TemplatePairStack.forward and
\* Recycling.forward runs ceil(L/S) stripes that assign every index exactly
\* once, and the result equals the unstriped result element for element.
C10_RowStripes ==
  (sfn \in {"templ_emb", "templ_rbf", "templ_pair", "recycl"}
     /\ spc = "done" /\ Striped) =>
    /\ \A k \in 1..Len(nst) : nst[k] = Ceil(sL, stride)
    /\ Len(nst) = (IF sfn = "recycl" THEN 3 ELSE 1)
    /\ WrittenOnce
    /\ sfn = "templ_emb" => sout = TE_Unstriped
    /\ sfn = "templ_rbf" => sout = TR_Unstriped
    /\ sfn = "templ_pair" => sout = TP_Unstriped
    /\ sfn = "recycl" => smsa = RC_msa /\ sdist = RC_dist /\ sout = RC_pair

\* Recycling.forward finished its three loops of two stripes over L = 3
\* with a recycle mask present.
C10_Witness ==
  /\ sfn = "recycl" /\ spc = "done" /\ Striped
  /\ sL = 3 /\ stride = 2 /\ nst = <<2, 2, 2>> /\ ~rmask_none

Congruent(d, r, l) == (d - r) % l = 0

\* C12 as stated: in cyclic mode every entry of seqsep is the representative
\* modulo L of idx[j] - idx[i] in (-L/2, L/2].
C12_WrapUpperClosed ==
  (sfn = "posenc" /\ spc = "done" /\ nc_cycle) =>
    \A c \in Cells :
      /\ Congruent(sidx[c[2] + 1] - sidx[c[1] + 1], sdist[c], sL)
      /\ -sL < 2 * sdist[c] /\ 2 * sdist[c] <= sL

\* C12 amended: in cyclic mode every entry of seqsep is the representative
\* modulo L of idx[j] - idx[i] in [-L/2, L/2), for even and odd L; for odd L
\* this is the same set of integers as (-L/2, L/2].
C12_WrapLowerClosed ==
  (sfn = "posenc" /\ spc = "done" /\ nc_cycle) =>
    \A c \in Cells :
      /\ Congruent(sidx[c[2] + 1] - sidx[c[1] + 1], sdist[c], sL)
      /\ -sL <= 2 * sdist[c] /\ 2 * sdist[c] < sL

\* Even L = 2, consecutive residues: the difference 1 = L/2 is wrapped to -1.
C12_Witness ==
  /\ sfn = "posenc" /\ spc = "done" /\ nc_cycle
  /\ sL = 2 /\ sidx = <<0, 1>>
  /\ sdist[<<0, 1>>] = -1 /\ sdist[<<1, 0>>] = -1

\* C13: in cyclic mode with consecutive residue indices the bin of (i, j)
\* equals the bin of ((i+k) mod L, (j+k) mod L) for all i, j and shifts k.
C13_ShiftInvariant ==
  (sfn = "posenc" /\ spc = "done" /\ nc_cycle
     /\ sidx = [k \in 1..sL |-> k - 1]) =>
    \A c \in Cells : \A k \in Idx :
      sout[c].ib = sout[<<(c[1] + k) % sL, (c[2] + k) % sL>>].ib

\* L = 3, consecutive, striped: (0, 2) has difference 2, its shift (1, 0) has
\* difference -1, and both are in the bin of -1.
C13_Witness ==
  /\ sfn = "posenc" /\ spc = "done" /\ nc_cycle
  /\ sL = 3 /\ sidx = <<0, 1, 2>> /\ Striped
  /\ sout[<<0, 2>>].ib = -1 - minpos /\ sout[<<1, 0>>].ib = -1 - minpos

\* C14: on the first cycle, where the previous MSA, pair and state are zeros,
\* the MSA row 0, pair and state after the recycle merge equal the fresh
\* embeddings.
C14_ZeroCorrection ==
  (sfn = "recycl" /\ spc = "merged" /\ prev_zero) =>
    /\ smsa = [i \in Idx |-> MsaFresh(i)]
    /\ sout = [c \in Cells |-> PairFresh(c[1], c[2])]
    /\ sstate = [i \in Idx |-> StateFresh(i)]

\* C16: when the model_weights path does not exist, construction prints a
\* diagnostic and ends the process: the Predictor is never available
\* and predict is never called.
C16_MissingWeightsFatal ==
  ~weights_found =>
    /\ pc \in {"new", "exited"}
    /\ calls = 0
    /\ pc = "exited" => (printed # <<>> /\ exit_status # Running)

C16_Witness ==
  /\ ~weights_found /\ pc = "exited"
  /\ printed = <<"ERROR: model weights not found", "ERROR: failed to load model">>

\* C17: when startup is aborted because the weight file is missing, the exit
\* status of the process is not zero.
C17_NonzeroExit ==
  (pc = "exited" /\ ~weights_found) => exit_status \notin {0, Running}

\* C15: with a distribution that is one-hot on bin k, the LDDT value is
\* 0.01 + 0.02 k, and the PAE values are centres of consecutive bins of width
\* bin_step = 0.5: the values of bins ka and kb differ by (kb - ka) * 0.5.
C15_OneHotCentre ==
  /\ (hfn = "lddt" /\ hpc = "done") =>
       \A p \in DOMAIN hin :
         PeakOf(hin[p]) # -1 =>
           QEq(hout[p], QAdd(Q(1, 100), Q(2 * PeakOf(hin[p]), 100)))
  /\ (hfn = "pae_unbin" /\ hpc = "done") =>
       \A a, b \in DOMAIN hin :
         (PeakOf(hin[a]) # -1 /\ PeakOf(hin[b]) # -1) =>
           QEq(QSub(hout[b], hout[a]),
               QMul(Q(PeakOf(hin[b]) - PeakOf(hin[a]), 1), bin_step))

\* C18: after the repair, every torsion entry with a NaN component has both
\* components 0 and its mask False; every other entry keeps its values and
\* its mask.
C18_NaNRepair ==
  (hfn = "torsion_repair" /\ hpc = "done") =>
    \A k \in DOMAIN hin :
      IF isnan(hin[k].c0) \/ isnan(hin[k].c1)
      THEN hout[k] = [c0 |-> "0.0", c1 |-> "0.0", mask |-> FALSE]
      ELSE hout[k] = hin[k]

\* The 1-based position q lies in the range r.
InRange(q, r) == IF Len(r) = 1 THEN q = r[1] ELSE r[1] <= q /\ q <= r[2]
\* The number of positions of the range r.
RangeLen(r) == IF Len(r) = 1 THEN 1 ELSE r[2] - r[1] + 1

\* C19: for an input name[r1,...,rk] the MSA and insertion columns retained
\* are exactly those whose 1-based position lies in some ri, in the original
\* order, and the chain lengths are [len(r1),...,len(rk)]; without brackets
\* all columns and the parser's chain lengths are kept.
C19_RangeFilter ==
  (hfn = "pass1" /\ hpc = "done") =>
    LET kept == {q \in 1..Len(hin.msa) :
                   \E k \in 1..Len(hin.ranges) : InRange(q, hin.ranges[k])}
    IN IF hin.ranges = <<>>
       THEN hout = [msa |-> hin.msa, ins |-> hin.ins, Ls |-> hin.Ls_i]
       ELSE /\ hout.msa = [q \in 1..Cardinality(kept) |->
                             10 + CHOOSE x \in kept :
                                    Cardinality({y \in kept : y < x}) = q - 1]
            /\ hout.ins = [q \in 1..Len(hout.msa) |-> hout.msa[q] + 10]
            /\ hout.Ls = [k \in 1..Len(hin.ranges) |-> RangeLen(hin.ranges[k])]

\* a[3,1-2]: the ranges are out of order, all three columns are kept in
\* the original order and the chain lengths are 1 and 2.
C19_Witness ==
  /\ hfn = "pass1" /\ hpc = "done"
  /\ hin.name = <<"a", "[", "3", ",", "1", "-", "2", "]">>
  /\ hout.msa = <<11, 12, 13>> /\ hout.Ls = <<1, 2>>

\* C20: after template assembly at most n_templ slots are retained; in a
\* retained slot t a residue r for which no template record was supplied has
\* an all-False atom mask and the gap token with confidence 0; and the 2D
\* template mask is 0 for every residue pair with a residue whose backbone
\* mask is not all True or with residues of different chains.
C20_AbsentSlotsMasked ==
  (hfn = "pass2" /\ hpc = "done") =>
    LET slots == DOMAIN hout.templ
        Ltot == SumSeq(AllChains(hin.blocks))
        res == 0..(hin.Osub * Ltot - 1)
    IN /\ Cardinality(slots) <= hin.n_templ
       /\ \A t \in slots : \A r \in res :
            Writers(hin, t, r % Ltot) = {} =>
              /\ hout.templ[t][r].mask = AtomMask(FALSE, FALSE, FALSE, FALSE)
              /\ hout.templ[t][r].tok = "gap"
              /\ hout.templ[t][r].conf = 0
       /\ \A t \in slots : \A i, j \in res :
            (\/ FALSE \in {hout.templ[t][i].mask.bb[a] : a \in 1..3}
             \/ FALSE \in {hout.templ[t][j].mask.bb[a] : a \in 1..3}
             \/ hout.same_chain[<<i, j>>] = 0) =>
              hout.mask_t_2d[t][<<i, j>>] = 0

\* Two inputs: the first, of two residues, with two templates from an hhr
\* file, the second, of one residue, with none; two slots are kept, the third
\* residue is absent in both and the second residue is resolved in slot 0.
C20_Witness ==
  /\ hfn = "pass2" /\ hpc = "done"
  /\ hin.n_templ = 2 /\ Len(hin.blocks) = 2 /\ hin.Osub = 2
  /\ hin.blocks[1].kind = "hhr" /\ hin.blocks[1].ntmpl = 2
  /\ hin.blocks[1].L = 2 /\ hin.blocks[2].kind = "none"
  /\ DOMAIN hout.templ = 0..1
  /\ hout.templ[0][2] = DefaultEntry /\ hout.templ[1][5] = DefaultEntry
  /\ bb_all(hout.templ[0][1])
  /\ hout.mask_t_2d[0][<<1, 1>>] = 1 /\ hout.mask_t_2d[0][<<1, 4>>] = 0

\* C21: in the first cycle (the only one whose mask_recycle is not None)
\* the validity mask entry (i, j) is 1 exactly when residues i and j both
\* have N, CA and C valid in template 0 and lie in the same chain, and
\* wherever it is 0 the RBF features of dist_CB that enter proj_dist are 0
\* (where it is 1 they are the RBF of the Cb distance).
C21_RecycleMask ==
  (sfn = "recycl" /\ ~rmask_none /\ spc \in {"proj", "done", "merged"}) =>
    \A c \in Cells :
      LET bb(r) == BBAtoms \subseteq MaskTAtoms(0, r)
          valid == bb(c[1]) /\ bb(c[2]) /\ SameChain(c[1], c[2]) = 1
      IN /\ MaskRecycle(c[1], c[2]) = (IF valid THEN 1 ELSE 0)
         /\ sdist[c] = (IF valid THEN rbf(cdist(c[1], c[2])) ELSE 0)
\* a striped first-cycle call of three residues in which one pair is
\* masked only for lying in two chains, one only for a missing C atom, and
\* one is kept
C21_Witness ==
  /\ sfn = "recycl" /\ ~rmask_none /\ prev_zero /\ spc = "merged"
  /\ sL = 3 /\ StrideOf < sL
  /\ \E c \in Cells :
       /\ SameChain(c[1], c[2]) = 0
       /\ BBAtoms \subseteq MaskPrev(c[1]) /\ BBAtoms \subseteq MaskPrev(c[2])
       /\ sdist[c] = 0
  /\ \E c \in Cells :
       /\ SameChain(c[1], c[2]) = 1 /\ "C" \notin MaskPrev(c[2])
       /\ sdist[c] = 0
  /\ \E c \in Cells : MaskRecycle(c[1], c[2]) = 1 /\ sdist[c] > 0

\* C22: when low_vram is enabled for a prediction, every model forward pass
\* of the run is made with the reduced stripe sizes of
\* get_striping_parameters and with the parameter low_vram of
\* RoseTTAFoldModule.forward (which it hands to the simulator) equal to True.
C22_LowVramInEffect ==
  low_vram =>
    \A k \in 1..Len(fwd) :
      /\ fwd[k].striping = get_striping_parameters(TRUE)
      /\ fwd[k].low_vram = TRUE

\* C23: every atom convert_to_hlt emits from the given heavy chain is in
\* the HL output as chain H, from the light chain in the HL output as
\* chain L, and every protein atom of every target chain is in the target
\* output, once, as chain T, whatever the chains are called in the file
\* and also when only one of heavy and light is given; in the HL output
\* no L atom precedes an H atom, and the HL output holds no target atom.
C23_Relabel ==
  (hfn = "convert_to_hlt" /\ hpc = "done") =>
    LET hl == hout.hl_structure
        t == hout.t_structure
        Targets == {hin.target_chains[k] : k \in DOMAIN hin.target_chains}
        from(a) == hin.atoms[a.serial].chain_id
    IN /\ \A i \in DOMAIN hl :
            \/ hl[i].chain_id = "H" /\ from(hl[i]) = hin.heavy_chain
            \/ hl[i].chain_id = "L" /\ from(hl[i]) = hin.light_chain
       /\ \A i \in DOMAIN t : t[i].chain_id = "T" /\ from(t[i]) \in Targets
       /\ \A k \in DOMAIN hin.atoms :
            (hin.atoms[k].chain_id \in Targets
               /\ hin.atoms[k].res_name \in protein_residues)
              => Cardinality({i \in DOMAIN t : t[i].serial = k}) = 1
       /\ \A i \in DOMAIN hl, j \in DOMAIN hl :
            (hl[i].chain_id = "L" /\ hl[j].chain_id = "H") => j < i
       /\ \A i \in DOMAIN hl : from(hl[i]) \notin Targets
\* the heavy chain is called L in the file and the light chain H, the file
\* lists the light chain first, and all three outputs are populated
C23_Witness ==
  /\ hfn = "convert_to_hlt" /\ hpc = "done"
  /\ hin.heavy_chain = "L" /\ hin.light_chain = "H"
  /\ hin.target_chains = <<"A">>
  /\ \E i \in DOMAIN hout.hl_structure, j \in DOMAIN hout.hl_structure :
       /\ i < j
       /\ hout.hl_structure[i].chain_id = "H"
       /\ hout.hl_structure[j].chain_id = "L"
       /\ hout.hl_structure[j].serial < hout.hl_structure[i].serial
  /\ hout.t_structure # <<>>

\* C24: the logging step reads rmsd, which nothing in run_prediction or at
\* module level binds, so the logging step of cycle 0 raises NameError and
\* the best-tracking comparison is never reached: a run that has raised did
\* so in cycle 0, after one model call, with every best slot still empty.
C24_RmsdUnbound ==
  /\ "rmsd" \notin NamesInScope
  /\ pc # "compare"
  /\ pc = "raised" =>
       /\ exc = "NameError" /\ i_cycle = 0 /\ Len(fwd) = 1
       /\ best_lddt = NoLddt /\ best_xyz = None /\ best_logit = None
       /\ best_pae = None
\* a run with recycles requested has raised in the logging step of cycle 0
C24_Witness ==
  /\ pc = "raised" /\ exc = "NameError" /\ n_recycles > 0
  /\ i_cycle = 0 /\ Len(outs) = 1

\* C25: when the module is in training mode, or the stride is <= 0 or the
\* striping dictionary is absent, or the stride is >= L, no stripe loop of
\* PositionalEncoding2D, _get_templ_emb, TemplatePairStack.forward or
\* Recycling.forward is entered and the result is that of the single
\* unstriped call, and the loop of _get_templ_rbf runs exactly one stripe,
\* which covers all L rows.
C25_StripingOnlyWhenUsable ==
  (sfn \in StripedFns /\ ~Striped) =>
    /\ sfn # "templ_rbf" => spc \in {"start", "done", "merged"}
    /\ spc \in {"done", "merged"} =>
         /\ WrittenOnce
         /\ nst = (IF sfn = "templ_rbf" THEN <<1>> ELSE <<>>)
         /\ sfn = "posenc" => sout = PE_Unstriped
         /\ sfn = "templ_emb" => sout = TE_Unstriped
         /\ sfn = "templ_rbf" => sout = TR_Unstriped
         /\ sfn = "templ_pair" => sout = TP_Unstriped
         /\ (sfn = "recycl" /\ spc = "done") =>
              smsa = RC_msa /\ sdist = RC_dist /\ sout = RC_pair
\* a call in training mode with a stride of 1 over three residues finished
\* without a stripe loop
C25_Witness ==
  /\ sfn = "templ_pair" /\ spc = "done"
  /\ training /\ ~strides_none /\ stride = 1 /\ sL = 3
  /\ nst = <<>> /\ sout = TP_Unstriped

\* C26: after pass 1 the declared residue count sum(Ls) equals the number
\* of MSA columns (Ls_blocked), for every input, range-filtered inputs with
\* overlapping, repeated or unordered ranges included.  For a list of one
\* input Ls is the input's chain lengths and the merged MSA is the input's.
C26_DeclaredLength ==
  (hfn = "pass1" /\ hpc = "done") => SumSeq(hout.Ls) = Len(hout.msa)

\* C27: cycle 0 is always accepted as best (its mean pLDDT is above the
\* initial best score of -1), so when a run has ended best_xyz, best_logit,
\* best_lddt and best_pae are all non-None and no None is read from a best
\* slot.
C27_BestNeverEmpty ==
  RunHalted =>
    /\ best_xyz # None /\ best_logit # None /\ best_pae # None
    /\ best_lddt # NoLddt
    /\ exc # "TypeError"

\* C28: after index construction idx_pdb is strictly increasing, two
\* consecutive residues of one chain differ by 1 and the first residue of a
\* following chain or subunit copy is 101 above the last residue before it;
\* same_chain[i, j] is 1 when i and j lie in the same chain of the same
\* subunit copy and 0 otherwise.
C28_IndexAndSameChain ==
  (hfn = "pass2" /\ hpc = "done") =>
    LET chains == Repeat(AllChains(hin.blocks), hin.Osub)
        n == SumSeq(chains)
        chain(q) == ChainIndex(q + 1, chains, 1)
        idx == hout.idx_pdb
    IN /\ DOMAIN idx = 0..(n - 1)
       /\ \A q \in 0..(n - 2) :
            /\ idx[q] < idx[q + 1]
            /\ idx[q + 1] - idx[q] = (IF chain(q) = chain(q + 1) THEN 1 ELSE 101)
       /\ \A i \in 0..(n - 1), j \in 0..(n - 1) :
            hout.same_chain[<<i, j>>] = (IF chain(i) = chain(j) THEN 1 ELSE 0)
\* two copies of chains of lengths 1 and 2
C28_Witness ==
  /\ hfn = "pass2" /\ hpc = "done"
  /\ hin.Osub = 2 /\ AllChains(hin.blocks) = <<1, 2>>
  /\ \A q \in 0..5 : hout.idx_pdb[q] = <<0, 101, 102, 203, 304, 305>>[q + 1]
  /\ hout.same_chain[<<1, 2>>] = 1 /\ hout.same_chain[<<1, 4>>] = 0

\* C29: for N rows, L columns and nmer >= 1, mode 'diag' returns
\* 1+(N-1)*nmer rows and L*nmer columns; row 0 is the query row repeated
\* nmer times, the non-query rows of copy c occupy rows 1+c(N-1)..(c+1)(N-1)
\* and columns cL..(c+1)L-1, and every other cell holds the gap token 20
\* with insertion count 0; in every mode row 0 is the query repeated nmer
\* times and msa_orig and ins_orig are as they were.
C29_MergeHomo ==
  (hfn = "merge_a3m_homo" /\ hpc = "done") =>
    LET N == hin.N
        l == hin.L
        Diag(orig, fill) ==
          [x \in (0..((N - 1) * hin.nmer)) \X (0..(l * hin.nmer - 1)) |->
             LET c == x[2] \div l
             IN IF x[1] = 0 THEN orig[<<0, x[2] % l>>]
                ELSE IF 1 + c * (N - 1) <= x[1] /\ x[1] <= (c + 1) * (N - 1)
                THEN orig[<<x[1] - c * (N - 1), x[2] % l>>]
                ELSE fill]
    IN /\ hin.mode = "diag" =>
            /\ hout.msa = Diag(hin.msa_orig, 20)
            /\ hout.ins = Diag(hin.ins_orig, 0)
       /\ \A c \in 0..(l * hin.nmer - 1) :
            /\ hout.msa[<<0, c>>] = hin.msa_orig[<<0, c % l>>]
            /\ hout.ins[<<0, c>>] = hin.ins_orig[<<0, c % l>>]
       /\ hout.msa_orig = hin.msa_orig /\ hout.ins_orig = hin.ins_orig
\* two rows, two columns, two copies in mode 'diag': copy 1 fills row 2,
\* columns 2..3, and row 2 holds gaps in columns 0..1
C29_Witness ==
  /\ hfn = "merge_a3m_homo" /\ hpc = "done"
  /\ hin.mode = "diag" /\ hin.N = 2 /\ hin.L = 2 /\ hin.nmer = 2
  /\ DOMAIN hout.msa = (0..2) \X (0..3)
  /\ hout.msa[<<2, 2>>] = hin.msa_orig[<<1, 0>>]
  /\ hout.msa[<<2, 0>>] = 20 /\ hout.ins[<<2, 0>>] = 0
  /\ hout.msa[<<1, 2>>] = 20

\* C30: every protein residue of the heavy and light chains that is not
\* cropped (res_id <= Hcrop / Lcrop, or whole_fab set) appears exactly once
\* in the HL output, residues that share a number and differ by insertion
\* code included, and every such residue whose number lies in a CDR range
\* is recorded under that CDR.
C30_KeptResiduesOnce ==
  (hfn = "convert_to_hlt" /\ hpc = "done") =>
    \A k \in DOMAIN hin.atoms :
      LET a == hin.atoms[k]
          new == IF a.chain_id = hin.heavy_chain THEN "H"
                 ELSE IF a.chain_id = hin.light_chain THEN "L" ELSE "T"
          crop == IF new = "H" THEN Hcrop ELSE Lcrop
          kept == /\ new \in {"H", "L"}
                  /\ a.res_name \in protein_residues
                  /\ hin.whole_fab \/ a.res_id <= crop
      IN kept =>
           /\ Cardinality({i \in DOMAIN hout.hl_structure :
                             hout.hl_structure[i].serial = k}) = 1
           /\ \A cdr \in DOMAIN get_cdr_ranges[new] :
                (get_cdr_ranges[new][cdr][1] <= a.res_id
                   /\ a.res_id <= get_cdr_ranges[new][cdr][2])
                  => \E i \in DOMAIN hout.cdr_residues[cdr] :
                       hout.cdr_residues[cdr][i] = a.res_id

====
